---- MODULE Spec2Model ----
(***************************************************************************)
(* Smart-money copy-trading backend: selection/scoring, smart-universe     *)
(* upsert, live signal aggregation engine, signal execution, backtest      *)
(* replay and the drawdown computation.                                    *)
(*                                                                         *)
(* Numeric conventions.  The program computes with Python floats; the      *)
(* model uses exact fixed-point integers:                                  *)
(*   - ratios of the selection engine are in thousandths (0.3 is 300),     *)
(*     a score is in ten-thousandths (1.0 is 10000);                       *)
(*   - timestamps are whole seconds;                                       *)
(*   - prices of the signal engine are whole units, a price band is kept   *)
(*     in 1/200 of a unit (BandScale) so that price * pct / 2 with pct in  *)
(*     whole percent is exact;                                             *)
(*   - an Optional value is the empty sequence (None) or a one-element     *)
(*     sequence.                                                           *)
(***************************************************************************)
EXTENDS Integers, Sequences, FiniteSets, TLC

None == <<>>
Some(x) == <<x>>
IsNone(o) == o = <<>>
Val(o) == o[1]

Min2(a, b) == IF a <= b THEN a ELSE b
Max2(a, b) == IF a >= b THEN a ELSE b

(***************************************************************************)
(* Bounds of the model.                                                    *)
(***************************************************************************)
MaxEvents == 3
MaxGap == 1
MaxExecEvents == 2
MaxCurveLen == 4
MaxTrades == 2

(***************************************************************************)
(* Selection / scoring engine (selection_service.py).                      *)
(***************************************************************************)
DEFAULT_CONFIG ==
    [ window_days |-> 30, min_trades |-> 200, min_active_days |-> 5,
      min_trades_per_day |-> 5000, min_expectancy |-> 10,
      min_payoff_ratio |-> 1500, max_drawdown_pct |-> 300,
      min_score |-> 700, max_single_loss_r |-> 2000,
      target_expectancy |-> 20, target_payoff |-> 2500,
      target_trades_per_day |-> 10000 ]

\* One unit of a score component (1.0), in thousandths.
One == 1000

\* A clamp that bounds from below only.
clampNoMaximum(value, minimum, maximum) ==
    IF value < minimum THEN minimum ELSE value

clamp(value, minimum, maximum) ==
    IF value < minimum THEN minimum
    ELSE IF value > maximum THEN maximum
    ELSE value

\* Hard filters that admit an expectancy equal to min_expectancy.
PassesHardFiltersExpectancyAtMinimum(metrics, config) ==
    /\ ~(metrics.num_trades < config.min_trades)
    /\ ~(metrics.active_days < config.min_active_days)
    /\ ~(metrics.payoff_ratio < config.min_payoff_ratio)
    /\ ~(metrics.expectancy < config.min_expectancy)
    /\ ~(metrics.max_drawdown_pct > config.max_drawdown_pct)
    /\ ~(metrics.trades_per_day < config.min_trades_per_day)
    /\ ~(metrics.min_trade_r < -config.max_single_loss_r)
PassesHardFilters(metrics, config) ==
    /\ ~(metrics.num_trades < config.min_trades)
    /\ ~(metrics.active_days < config.min_active_days)
    /\ ~(metrics.payoff_ratio < config.min_payoff_ratio)
    /\ ~(metrics.expectancy <= config.min_expectancy)
    /\ ~(metrics.max_drawdown_pct > config.max_drawdown_pct)
    /\ ~(metrics.trades_per_day < config.min_trades_per_day)
    /\ ~(metrics.min_trade_r < -config.max_single_loss_r)

e_component(metrics, config) ==
    clamp(IF config.target_expectancy > 0
            THEN (metrics.expectancy * One) \div config.target_expectancy
            ELSE 0,
          0, One)

p_component(metrics, config) ==
    clamp(IF config.target_payoff > 0
            THEN (metrics.payoff_ratio * One) \div config.target_payoff
            ELSE 0,
          0, One)

f_component(metrics, config) ==
    clamp(IF config.target_trades_per_day > 0
            THEN (metrics.trades_per_day * One) \div config.target_trades_per_day
            ELSE 0,
          0, One)

\* A drawdown component that grows with the drawdown (the "1.0 -" is lost).
d_componentInverted(metrics, config) ==
    clamp(IF config.max_drawdown_pct > 0
            THEN (metrics.max_drawdown_pct * One) \div config.max_drawdown_pct
            ELSE One,
          0, One)

d_component(metrics, config) ==
    clamp(IF config.max_drawdown_pct > 0
            THEN One - ((metrics.max_drawdown_pct * One) \div config.max_drawdown_pct)
            ELSE One,
          0, One)

\* score in ten-thousandths: 0.4*E + 0.3*P + 0.2*F + 0.1*D
WeightedScore(metrics, config) ==
    4 * e_component(metrics, config)
      + 3 * p_component(metrics, config)
      + 2 * f_component(metrics, config)
      + 1 * d_component(metrics, config)

evaluate_trader_profile(metrics, config) ==
    IF ~PassesHardFilters(metrics, config)
      THEN [eligible |-> FALSE, score |-> 0]
      ELSE [eligible |-> TRUE, score |-> WeightedScore(metrics, config)]

(***************************************************************************)
(* Metrics profiles (TraderMetricsResult) handed to the selection engine.  *)
(* compute_metrics_for_trader aggregates the profile from the trader's     *)
(* rows of the trades table; the table is the environment here and the     *)
(* aggregated profile is the input of the refresh.                         *)
(***************************************************************************)
ZeroProfile ==
    [ pnl |-> 0, win_rate |-> 0, volatility |-> 0, max_drawdown |-> 0,
      sharpe_window |-> None,
      num_trades |-> 0, active_days |-> 0, trades_per_day |-> 0,
      avg_win_r |-> 0, avg_loss_r |-> 0, payoff_ratio |-> 0,
      expectancy |-> 0, min_trade_r |-> 0, max_drawdown_pct |-> 0 ]

GoodProfile ==
    [ pnl |-> 900, win_rate |-> 600, volatility |-> 50, max_drawdown |-> 100,
      sharpe_window |-> None,
      num_trades |-> 500, active_days |-> 40, trades_per_day |-> 12000,
      avg_win_r |-> 90, avg_loss_r |-> 30, payoff_ratio |-> 3000,
      expectancy |-> 30, min_trade_r |-> -1000, max_drawdown_pct |-> 100 ]

FairProfile ==
    [ pnl |-> 300, win_rate |-> 500, volatility |-> 80, max_drawdown |-> 300,
      sharpe_window |-> None,
      num_trades |-> 200, active_days |-> 5, trades_per_day |-> 5000,
      avg_win_r |-> 60, avg_loss_r |-> 40, payoff_ratio |-> 1500,
      expectancy |-> 15, min_trade_r |-> -2000, max_drawdown_pct |-> 300 ]

MetricsProfiles == {ZeroProfile, GoodProfile, FairProfile}

(***************************************************************************)
(* Persistent tables.                                                      *)
(***************************************************************************)
\* traders table: id -> address (address is unique).
TraderIds == {1, 2}
TraderAddress == [id \in TraderIds |-> IF id = 1 THEN "a1" ELSE "a2"]
WindowDaysValues == {7, 30}

Symbols == {"BTC"}
Sides == {"long", "short"}
Keys == Symbols \X Sides

VARIABLES
    universe,        \* smart_trader_universe table: set of rows
    EVENT_BUFFERS,   \* strategy_engine._EVENT_BUFFERS: key -> deque of events
    LAST_SIGNAL_TS,  \* strategy_engine._LAST_SIGNAL_TS: dict key -> timestamp
    signals,         \* signals table: sequence of rows, id = index
    follower_trades, \* follower_trades table: sequence of rows, id = index
    config,          \* StrategyConfig used by the engine
    feed_ts,         \* timestamp of the latest event on the feed
    num_events,      \* number of events fed so far
    last_call,       \* the latest call and its outcome
    sel,             \* one evaluation of evaluate_trader_profile
    dd,              \* one evaluation of _compute_drawdown_from_equity
    bt,              \* the locals of one run_backtest call
    risk_config,     \* risk_config table: the newest row, if any
    risk_events,     \* risk_events table: sequence of rows, id = index
    backtest_runs,   \* backtest_runs table: sequence of rows, id = index
    requests         \* the locals of the execute_signal calls under way

dbVars == << universe, signals, follower_trades >>
riskVars == << risk_config, risk_events >>
engineVars == << EVENT_BUFFERS, LAST_SIGNAL_TS, config, feed_ts, num_events >>
liveVars == << universe, EVENT_BUFFERS, LAST_SIGNAL_TS, signals, follower_trades,
               config, feed_ts, num_events, last_call, risk_config, risk_events >>
vars == << universe, EVENT_BUFFERS, LAST_SIGNAL_TS, signals, follower_trades,
           config, feed_ts, num_events, last_call, sel, dd, bt,
           risk_config, risk_events, backtest_runs, requests >>

(***************************************************************************)
(* Smart-universe upsert (metrics_service.py).                             *)
(***************************************************************************)
ExistingRows(rows, trader_id, window_days) ==
    {r \in rows : r.trader_id = trader_id /\ r.window_days = window_days}

\* db.scalar(select ...): the first row of the result.  The table is the set
\* of its rows without the surrogate key id; the result holds one row at most.
FirstRow(rs) == CHOOSE r \in rs : TRUE

InsertedRow(rows, trader_id, window_days, m, eligible, score, filters_snapshot) ==
    [ trader_id |-> trader_id,
      window_days |-> window_days,
      filters_snapshot |-> filters_snapshot,
      eligible |-> eligible,
      pnl_window |-> m.pnl,
      win_rate_window |-> m.win_rate,
      volatility_window |-> m.volatility,
      max_drawdown_window |-> m.max_drawdown,
      sharpe_window |-> m.sharpe_window,
      num_trades |-> m.num_trades,
      active_days |-> m.active_days,
      trades_per_day |-> m.trades_per_day,
      avg_win_r |-> m.avg_win_r,
      avg_loss_r |-> m.avg_loss_r,
      payoff_ratio |-> m.payoff_ratio,
      expectancy |-> m.expectancy,
      min_trade_r |-> m.min_trade_r,
      max_drawdown_pct |-> m.max_drawdown_pct,
      score |-> score ]

\* An update that overwrites the metrics and the score but not eligible.
UpdatedRowStaleEligible(existing, m, eligible, score, filters_snapshot) ==
    [ existing EXCEPT
        !.pnl_window = m.pnl,
        !.win_rate_window = m.win_rate,
        !.volatility_window = m.volatility,
        !.max_drawdown_window = m.max_drawdown,
        !.sharpe_window = m.sharpe_window,
        !.num_trades = m.num_trades,
        !.active_days = m.active_days,
        !.trades_per_day = m.trades_per_day,
        !.avg_win_r = m.avg_win_r,
        !.avg_loss_r = m.avg_loss_r,
        !.payoff_ratio = m.payoff_ratio,
        !.expectancy = m.expectancy,
        !.min_trade_r = m.min_trade_r,
        !.max_drawdown_pct = m.max_drawdown_pct,
        !.score = score,
        !.filters_snapshot = filters_snapshot ]

UpdatedRow(existing, m, eligible, score, filters_snapshot) ==
    [ existing EXCEPT
        !.pnl_window = m.pnl,
        !.win_rate_window = m.win_rate,
        !.volatility_window = m.volatility,
        !.max_drawdown_window = m.max_drawdown,
        !.sharpe_window = m.sharpe_window,
        !.num_trades = m.num_trades,
        !.active_days = m.active_days,
        !.trades_per_day = m.trades_per_day,
        !.avg_win_r = m.avg_win_r,
        !.avg_loss_r = m.avg_loss_r,
        !.payoff_ratio = m.payoff_ratio,
        !.expectancy = m.expectancy,
        !.min_trade_r = m.min_trade_r,
        !.max_drawdown_pct = m.max_drawdown_pct,
        !.score = score,
        !.eligible = eligible,
        !.filters_snapshot = filters_snapshot ]

_update_smart_universe_row(rows, trader_id, window_days, m, eligible, score, filters_snapshot) ==
    LET found == ExistingRows(rows, trader_id, window_days) IN
    IF found = {}
      THEN rows \cup {InsertedRow(rows, trader_id, window_days, m, eligible,
                                  score, filters_snapshot)}
      ELSE LET existing == FirstRow(found) IN
           (rows \ {existing})
              \cup {UpdatedRow(existing, m, eligible, score, filters_snapshot)}

\* compute_metrics_for_trader: evaluate the aggregated profile with
\* DEFAULT_CONFIG and upsert the universe row.
compute_metrics_for_trader(trader_id, window_days, m) ==
    LET selection == evaluate_trader_profile(m, DEFAULT_CONFIG) IN
    /\ universe' = _update_smart_universe_row(universe, trader_id, window_days, m,
                                              selection.eligible, selection.score,
                                              DEFAULT_CONFIG)
    /\ last_call' = [ op |-> "compute_metrics_for_trader",
                      window_days |-> window_days,
                      refreshed |-> [t \in {trader_id} |->
                          [ metrics |-> m, eligible |-> selection.eligible,
                            score |-> selection.score ]] ]
    /\ UNCHANGED << engineVars, signals, follower_trades, sel, dd, bt, riskVars, backtest_runs, requests >>

(***************************************************************************)
(* Live signal aggregation engine (strategy_engine.py).                    *)
(***************************************************************************)
\* Price band in 1/BandScale of a price unit.
BandScale == 200

\* price_range_width_pct is in whole percent, price_range_width_abs in
\* whole price units:  price * (pct / 2)  is  price * pct  in 1/200 units,
\* abs / 2  is  abs * 100  in 1/200 units.
\* A band whose half width is taken below the price only.
_get_price_rangeLopsided(event, cfg) ==
    IF ~IsNone(cfg.price_range_width_pct)
      THEN << event.price * BandScale - event.price * Val(cfg.price_range_width_pct),
              event.price * BandScale >>
    ELSE IF ~IsNone(cfg.price_range_width_abs)
      THEN << event.price * BandScale
                 - Val(cfg.price_range_width_abs) * (BandScale \div 2),
              event.price * BandScale >>
    ELSE << event.price * BandScale, event.price * BandScale >>

_get_price_range(event, cfg) ==
    IF ~IsNone(cfg.price_range_width_pct)
      THEN LET half_width == event.price * Val(cfg.price_range_width_pct) IN
           << event.price * BandScale - half_width,
              event.price * BandScale + half_width >>
    ELSE IF ~IsNone(cfg.price_range_width_abs)
      THEN LET half_width == Val(cfg.price_range_width_abs) * (BandScale \div 2) IN
           << event.price * BandScale - half_width,
              event.price * BandScale + half_width >>
    ELSE << event.price * BandScale, event.price * BandScale >>

\* Eviction that pops at most one stale event (an if in place of the while).
PopStaleOnce(buf, cutoff) ==
    IF buf # <<>> /\ Head(buf).timestamp < cutoff THEN Tail(buf) ELSE buf

\* while buf and buf[0].timestamp < cutoff: buf.popleft()
RECURSIVE PopStale(_, _)
PopStale(buf, cutoff) ==
    IF buf # <<>> /\ Head(buf).timestamp < cutoff
      THEN PopStale(Tail(buf), cutoff)
      ELSE buf

\* One entry per buffered event inside the band, not per distinct address.
SmartAddressesPerEvent(buf, event, price_min, price_max) ==
    { << buf[i].trader_address, i >> : i \in
        { j \in 1..Len(buf) :
            /\ price_min <= buf[j].price * BandScale
            /\ buf[j].price * BandScale <= price_max
            /\ buf[j].symbol = event.symbol
            /\ buf[j].side = event.side } }

\* Distinct addresses of the buffered events inside the band.
SmartAddresses(buf, event, price_min, price_max) ==
    { buf[i].trader_address : i \in
        { j \in 1..Len(buf) :
            /\ price_min <= buf[j].price * BandScale
            /\ buf[j].price * BandScale <= price_max
            /\ buf[j].symbol = event.symbol
            /\ buf[j].side = event.side } }

\* A lookup that finds any universe row of the address, eligible or not.
SmartRowExistsAnyRow(rows, address) ==
    \E r \in rows : TraderAddress[r.trader_id] = address

\* Step 1: a universe row of the trader with this address, eligible = True.
SmartRowExists(rows, address) ==
    \E r \in rows :
        /\ TraderAddress[r.trader_id] = address
        /\ r.eligible

EventKey(event) == << event.symbol, event.side >>

\* Debounce that lets a signal through one second early.
DebouncedEarly(last_signal_ts, key, event, cfg) ==
    /\ key \in DOMAIN last_signal_ts
    /\ event.timestamp - last_signal_ts[key] < cfg.min_signal_interval_seconds - 1

\* Step 4: a signal of this key was emitted less than
\* min_signal_interval_seconds before the event.
Debounced(last_signal_ts, key, event, cfg) ==
    /\ key \in DOMAIN last_signal_ts
    /\ event.timestamp - last_signal_ts[key] < cfg.min_signal_interval_seconds

NewSignal(event, price_min, price_max, smart_addresses) ==
    [ symbol |-> event.symbol,
      side |-> event.side,
      price_range_min |-> price_min,
      price_range_max |-> price_max,
      smart_trader_count |-> Cardinality(smart_addresses),
      trader_addresses |-> smart_addresses,
      signal_strength |-> Cardinality(smart_addresses),
      executed |-> FALSE,
      executed_at |-> None,
      created_at |-> event.timestamp ]

process_trade_event(event) ==
    LET key == EventKey(event)
        buf == PopStale(Append(EVENT_BUFFERS[key], event),
                        event.timestamp - config.time_window_seconds)
        band == _get_price_range(event, config)
        smart_addresses == SmartAddresses(buf, event, band[1], band[2])
        smart_count == Cardinality(smart_addresses)
        debounced == Debounced(LAST_SIGNAL_TS, key, event, config)
    IN
    /\ feed_ts' = event.timestamp
    /\ num_events' = num_events + 1
    /\ IF ~SmartRowExists(universe, event.trader_address)
         THEN /\ last_call' = [ op |-> "process_trade_event", returned |-> None ]
              /\ UNCHANGED << EVENT_BUFFERS, LAST_SIGNAL_TS, signals >>
         ELSE /\ EVENT_BUFFERS' = [EVENT_BUFFERS EXCEPT ![key] = buf]
              /\ IF smart_count < config.min_smart_traders \/ debounced
                   THEN /\ last_call' = [ op |-> "process_trade_event",
                                          returned |-> None ]
                        /\ UNCHANGED << LAST_SIGNAL_TS, signals >>
                   ELSE /\ signals' = Append(signals,
                              NewSignal(event, band[1], band[2], smart_addresses))
                        /\ LAST_SIGNAL_TS' =
                              [k \in DOMAIN LAST_SIGNAL_TS \cup {key} |->
                                  IF k = key THEN event.timestamp
                                  ELSE LAST_SIGNAL_TS[k]]
                        /\ last_call' = [ op |-> "process_trade_event",
                                          returned |-> Some(Len(signals) + 1) ]
    /\ UNCHANGED << universe, follower_trades, config, sel, dd, bt, riskVars, backtest_runs, requests >>

(***************************************************************************)
(* Signal execution (execution_service.py, execution_client.py).           *)
(***************************************************************************)
\* Default notional 0.01, in hundredths.
DEFAULT_NOTIONAL_PER_SIGNAL == 1

\* SimulatedExecutionClient.open_position: the inserted follower trade.
open_position(symbol, side, notional, price, signal_id) ==
    [ symbol |-> symbol,
      side |-> side,
      size |-> notional,
      entry_price |-> IF ~IsNone(price) THEN Val(price) ELSE 0,
      is_open |-> TRUE,
      signal_id |-> signal_id,
      exit_price |-> None,
      closed_at |-> None,
      realized_pnl |-> 0 ]

\* A guard that takes a signal for executed only while executed_at is unset.
AlreadyExecutedUnstamped(signal) == signal.executed /\ IsNone(signal.executed_at)

\* if signal.executed: raise ValueError
AlreadyExecuted(signal) == signal.executed

ExecOutcome(signal_id, outcome) ==
    [ op |-> "execute_signal", signal_id |-> signal_id, outcome |-> outcome ]

execute_signal(signal_id, notional) ==
    /\ IF signal_id \notin 1..Len(signals)
         THEN /\ last_call' = ExecOutcome(signal_id, "ValueError: not found")
              /\ UNCHANGED << signals, follower_trades >>
       ELSE IF AlreadyExecuted(signals[signal_id])
         THEN /\ last_call' = ExecOutcome(signal_id, "ValueError: already executed")
              /\ UNCHANGED << signals, follower_trades >>
       ELSE LET signal == signals[signal_id]
                entry_price == (signal.price_range_min + signal.price_range_max) \div 2
                effective_notional == IF ~IsNone(notional) THEN Val(notional)
                                      ELSE DEFAULT_NOTIONAL_PER_SIGNAL
            IN
            IF entry_price <= 0
              THEN /\ last_call' = ExecOutcome(signal_id, "ValueError: invalid entry price")
                   /\ UNCHANGED << signals, follower_trades >>
            ELSE IF effective_notional <= 0
              THEN /\ last_call' = ExecOutcome(signal_id, "ValueError: notional")
                   /\ UNCHANGED << signals, follower_trades >>
            ELSE /\ follower_trades' = Append(follower_trades,
                        open_position(signal.symbol, signal.side, effective_notional,
                                      Some(entry_price), signal_id))
                 /\ signals' = [signals EXCEPT ![signal_id].executed = TRUE,
                                               ![signal_id].executed_at = Some("utcnow")]
                 /\ last_call' = ExecOutcome(signal_id, "ok")
    /\ UNCHANGED << universe, engineVars, sel, dd, bt, riskVars, backtest_runs, requests >>

(***************************************************************************)
(* Inputs of the live system.                                              *)
(***************************************************************************)
Prices == {100, 101}

\* Sides and prices on the feed: two price levels on the long side, one on
\* the short side.
SidePrices == {<<"long", 100>>, <<"long", 101>>, <<"short", 100>>}
FeedAddresses == {"a1", "a2"}

StrategyConfigs ==
    { [ time_window_seconds |-> 1, price_range_width_pct |-> Some(2),
        price_range_width_abs |-> None, min_smart_traders |-> 1,
        min_signal_interval_seconds |-> 1 ],
      [ time_window_seconds |-> 1, price_range_width_pct |-> None,
        price_range_width_abs |-> Some(2), min_smart_traders |-> 2,
        min_signal_interval_seconds |-> 2 ],
      [ time_window_seconds |-> 0, price_range_width_pct |-> None,
        price_range_width_abs |-> None, min_smart_traders |-> 1,
        min_signal_interval_seconds |-> 2 ] }

\* Events arrive with non-decreasing timestamps (precondition of the engine).
FeedEvents ==
    { [ trader_address |-> a, symbol |-> s, side |-> sp[1], price |-> sp[2],
        size |-> 1, timestamp |-> t ] :
        a \in FeedAddresses, s \in Symbols, sp \in SidePrices,
        t \in feed_ts..(feed_ts + MaxGap) }

Notionals == {None, Some(0)}

LiveProfiles == {ZeroProfile, GoodProfile}

Idle == [pc |-> "idle"]

RefreshedUniverse(rows, trader_id, window_days, m) ==
    LET selection == evaluate_trader_profile(m, DEFAULT_CONFIG) IN
    _update_smart_universe_row(rows, trader_id, window_days, m,
                               selection.eligible, selection.score, DEFAULT_CONFIG)

\* Freshly imported strategy_engine module and empty signal and trade tables.
InitEngine ==
    /\ EVENT_BUFFERS = [k \in Keys |-> <<>>]
    /\ LAST_SIGNAL_TS = [k \in {} |-> 0]
    /\ signals = <<>>
    /\ follower_trades = <<>>
    /\ feed_ts = 0
    /\ num_events = 0
    /\ last_call = [op |-> "init"]
    /\ risk_config = None
    /\ risk_events = <<>>
    /\ backtest_runs = <<>>
    /\ requests = <<>>

InitLive ==
    /\ InitEngine
    /\ config \in StrategyConfigs
    /\ sel = Idle
    /\ dd = Idle
    /\ bt = Idle

\* The live system starts with trader 1 refreshed into the universe as
\* eligible; trader 2 is refreshed while events arrive.
Init ==
    /\ InitLive
    /\ universe = RefreshedUniverse({}, 1, 30, GoodProfile)

\* The live engine is fed in the behaviours that are not a backtest.
FeedTradeEvent ==
    /\ bt = Idle
    /\ num_events < MaxEvents
    /\ \E event \in FeedEvents : process_trade_event(event)

RefreshTrader ==
    /\ bt = Idle
    /\ \E m \in LiveProfiles : compute_metrics_for_trader(2, 30, m)

Next ==
    \/ FeedTradeEvent
    \/ RefreshTrader

Spec == Init /\ [][Next]_vars

(***************************************************************************)
(* Signal execution on top of the live engine: both traders are in the     *)
(* universe as eligible (the state after two refreshes), events are fed    *)
(* and signals are executed.                                               *)
(***************************************************************************)
InitExec ==
    /\ InitLive
    /\ universe = RefreshedUniverse(RefreshedUniverse({}, 1, 30, GoodProfile),
                                    2, 30, GoodProfile)

FeedTradeEventExec ==
    /\ num_events < MaxExecEvents
    /\ \E event \in FeedEvents : process_trade_event(event)

ExecuteSignal ==
    \E signal_id \in 1..(Len(signals) + 1), notional \in Notionals :
          execute_signal(signal_id, notional)

NextExec ==
    \/ FeedTradeEventExec
    \/ ExecuteSignal

SpecExec == InitExec /\ [][NextExec]_vars

(***************************************************************************)
(* Bulk refresh of the universe (universe_service.py) and the universe     *)
(* taken alone: every trader and window is refreshed with every profile.   *)
(***************************************************************************)
\* for trader in traders: compute_metrics_for_trader(...), in id order.
RECURSIVE RefreshAll(_, _, _, _)
RefreshAll(rows, todo, window_days, ms) ==
    IF todo = {} THEN rows
    ELSE LET t == CHOOSE x \in todo : \A y \in todo : x <= y IN
         RefreshAll(RefreshedUniverse(rows, t, window_days, ms[t]),
                    todo \ {t}, window_days, ms)

\* The rows of the window, eligible or not.
EligibleRowsAnyEligibility(rows, window_days) ==
    { r \in rows : r.window_days = window_days }
EligibleRows(rows, window_days) ==
    { r \in rows : r.window_days = window_days /\ r.eligible }

\* ORDER BY score DESC LIMIT top_n; rows of equal score in trader_id order.
RECURSIVE TopByScore(_, _)
TopByScore(rows, top_n) ==
    IF rows = {} \/ top_n <= 0 THEN <<>>
    ELSE LET best == CHOOSE r \in rows :
                        \A q \in rows : \/ r.score > q.score
                                        \/ (r.score = q.score /\ r.trader_id <= q.trader_id)
         IN  << [ trader_id |-> best.trader_id,
                  address |-> TraderAddress[best.trader_id],
                  score |-> best.score,
                  win_rate |-> best.win_rate_window,
                  payoff_ratio |-> best.payoff_ratio,
                  expectancy |-> best.expectancy,
                  trades_per_day |-> best.trades_per_day ] >>
             \o TopByScore(rows \ {best}, top_n - 1)

refresh_smart_universe(window_days, top_n, ms) ==
    /\ universe' = RefreshAll(universe, TraderIds, window_days, ms)
    /\ last_call' =
          [ op |-> "refresh_smart_universe",
            window_days |-> window_days,
            top_n |-> top_n,
            refreshed |-> [t \in TraderIds |->
                LET selection == evaluate_trader_profile(ms[t], DEFAULT_CONFIG) IN
                [ metrics |-> ms[t], eligible |-> selection.eligible,
                  score |-> selection.score ]],
            total_traders |-> Cardinality(TraderIds),
            eligible_traders |-> Cardinality(EligibleRows(universe', window_days)),
            top_traders |-> TopByScore(EligibleRows(universe', window_days), top_n) ]
    /\ UNCHANGED << engineVars, signals, follower_trades, sel, dd, bt, riskVars, backtest_runs, requests >>

TopNs == {1, 20}

InitUniverse ==
    /\ InitLive
    /\ universe = {}

RefreshOne ==
    \E trader_id \in TraderIds, window_days \in WindowDaysValues,
       m \in MetricsProfiles :
        compute_metrics_for_trader(trader_id, window_days, m)

RefreshUniverse ==
    \E window_days \in WindowDaysValues, top_n \in TopNs,
       ms \in [TraderIds -> MetricsProfiles] :
        refresh_smart_universe(window_days, top_n, ms)

NextUniverse ==
    \/ RefreshOne
    \/ RefreshUniverse

SpecUniverse == InitUniverse /\ [][NextUniverse]_vars

(***************************************************************************)
(* The selection engine taken alone: evaluate_trader_profile is applied to *)
(* a profile and a configuration, then to the same profile improved in one *)
(* scoring component.                                                      *)
(***************************************************************************)
SelMetrics ==
    [ pnl : {0}, win_rate : {0}, volatility : {0}, max_drawdown : {0},
      sharpe_window : {None}, avg_win_r : {0}, avg_loss_r : {0},
      num_trades : {0, 200, 500},
      active_days : {0, 5},
      trades_per_day : {0, 5000, 12000},
      payoff_ratio : {-1000, 0, 1500, 3000},
      expectancy : {-10, 10, 15, 30},
      min_trade_r : {-2500, -1000, 0},
      max_drawdown_pct : {-100, 0, 100, 300, 450} ]

\* No minimum is binding and the targets are the default ones.
LenientConfig ==
    [ DEFAULT_CONFIG EXCEPT
        !.min_trades = 0, !.min_active_days = 0, !.min_trades_per_day = 0,
        !.min_expectancy = -1000, !.min_payoff_ratio = -5000,
        !.max_drawdown_pct = 1000, !.max_single_loss_r = 5000 ]

SelConfigs ==
    { DEFAULT_CONFIG,
      LenientConfig,
      [ LenientConfig EXCEPT !.target_expectancy = 0, !.target_payoff = 0,
                             !.target_trades_per_day = 0 ],
      [ LenientConfig EXCEPT !.target_expectancy = -20, !.target_payoff = 1000,
                             !.target_trades_per_day = 20000 ],
      [ DEFAULT_CONFIG EXCEPT !.max_drawdown_pct = 0 ],
      [ DEFAULT_CONFIG EXCEPT !.max_drawdown_pct = -50, !.min_expectancy = 0 ] }

\* The four scoring components and the values a profile can be improved to.
Improvements ==
    { <<"max_drawdown_pct", v>> : v \in {-100, 0, 100, 300, 450} }
      \cup { <<"payoff_ratio", v>> : v \in {-1000, 0, 1500, 3000} }
      \cup { <<"expectancy", v>> : v \in {-10, 10, 15, 30} }
      \cup { <<"trades_per_day", v>> : v \in {0, 5000, 12000} }

\* imp gives a better value of its component than the profile has.
Improves(metrics, imp) ==
    CASE imp[1] = "max_drawdown_pct" -> imp[2] < metrics.max_drawdown_pct
      [] imp[1] = "payoff_ratio" -> imp[2] > metrics.payoff_ratio
      [] imp[1] = "expectancy" -> imp[2] > metrics.expectancy
      [] imp[1] = "trades_per_day" -> imp[2] > metrics.trades_per_day

Improved(metrics, imp) ==
    CASE imp[1] = "max_drawdown_pct" -> [metrics EXCEPT !.max_drawdown_pct = imp[2]]
      [] imp[1] = "payoff_ratio" -> [metrics EXCEPT !.payoff_ratio = imp[2]]
      [] imp[1] = "expectancy" -> [metrics EXCEPT !.expectancy = imp[2]]
      [] imp[1] = "trades_per_day" -> [metrics EXCEPT !.trades_per_day = imp[2]]

\* The live engine takes no part here: it stays as imported.
InitSel ==
    /\ InitEngine
    /\ config = CHOOSE c \in StrategyConfigs : TRUE
    /\ universe = {}
    /\ dd = Idle
    /\ bt = Idle
    /\ \E m \in SelMetrics, c \in SelConfigs :
          sel = [ pc |-> "start", metrics |-> m, config |-> c ]

Evaluate ==
    /\ sel.pc = "start"
    /\ sel' = [ pc |-> "evaluated", metrics |-> sel.metrics, config |-> sel.config,
                result |-> evaluate_trader_profile(sel.metrics, sel.config) ]
    /\ UNCHANGED << liveVars, dd, bt, backtest_runs, requests >>

EvaluateImproved ==
    /\ sel.pc = "evaluated"
    /\ \E imp \in Improvements :
          /\ Improves(sel.metrics, imp)
          /\ sel' = [ pc |-> "compared", metrics |-> sel.metrics,
                      config |-> sel.config, result |-> sel.result,
                      component |-> imp[1],
                      better |-> Improved(sel.metrics, imp),
                      better_result |->
                          evaluate_trader_profile(Improved(sel.metrics, imp),
                                                  sel.config) ]
    /\ UNCHANGED << liveVars, dd, bt, backtest_runs, requests >>

NextSel ==
    \/ Evaluate
    \/ EvaluateImproved

SpecSel == InitSel /\ [][NextSel]_vars

(***************************************************************************)
(* Drawdown of an equity curve (backtest_service.py).  A ratio is a pair   *)
(* << numerator, denominator >>.                                           *)
(***************************************************************************)
\* for eq in equity_curve: the running peak and the largest peak - eq.
RECURSIVE DrawdownScan(_, _, _)
DrawdownScan(equity_curve, peak, max_dd_abs) ==
    IF equity_curve = <<>>
      THEN max_dd_abs
      ELSE LET eq == Head(equity_curve)
               new_peak == IF eq > peak THEN eq ELSE peak
               dd_abs == new_peak - eq
           IN DrawdownScan(Tail(equity_curve), new_peak,
                           IF dd_abs > max_dd_abs THEN dd_abs ELSE max_dd_abs)

_compute_drawdown_from_equity(equity_curve, initial_equity) ==
    LET max_dd_abs == DrawdownScan(equity_curve, initial_equity, 0) IN
    [ max_dd_abs |-> max_dd_abs,
      max_dd_pct |-> IF initial_equity > 0
                       THEN << max_dd_abs, initial_equity >>
                       ELSE << 0, 1 >> ]

DEFAULT_INITIAL_EQUITY == 10000

EquityValues == {9000, 9500, 10000, 10500}

\* run_backtest starts every curve with the initial equity.
EquityCurves ==
    UNION { { << DEFAULT_INITIAL_EQUITY >> \o c : c \in [1..n -> EquityValues] } :
            n \in 0..(MaxCurveLen - 1) }

InitDD ==
    /\ InitEngine
    /\ config = CHOOSE c \in StrategyConfigs : TRUE
    /\ universe = {}
    /\ sel = Idle
    /\ bt = Idle
    /\ \E c \in EquityCurves :
          dd = [ pc |-> "start", equity_curve |-> c,
                 initial_equity |-> DEFAULT_INITIAL_EQUITY ]

ComputeDrawdown ==
    /\ dd.pc = "start"
    /\ dd' = [ pc |-> "computed", equity_curve |-> dd.equity_curve,
               initial_equity |-> dd.initial_equity,
               result |-> _compute_drawdown_from_equity(dd.equity_curve,
                                                        dd.initial_equity) ]
    /\ UNCHANGED << liveVars, sel, bt, backtest_runs, requests >>

NextDD == ComputeDrawdown

SpecDD == InitDD /\ [][NextDD]_vars

(***************************************************************************)
(* Backtest (backtest_service.py).  Money is in whole units, a return r in *)
(* hundredths, a ratio is a pair << numerator, denominator >>.             *)
(***************************************************************************)
\* The dataclass has the fields below and no other: the entry price of the
\* trade is stored as price.
BacktestTradeEvent(t, addr) ==
    [ trader_address |-> addr, symbol |-> t.symbol, side |-> t.side,
      price |-> t.entry_price, size |-> t.size,
      timestamp |-> t.opened_at, exit_price |-> t.exit_price,
      realized_pnl |-> t.realized_pnl, closed_at |-> t.closed_at ]

_bt_get_price_range(event, cfg) ==
    IF ~IsNone(cfg.price_range_width_pct)
      THEN LET half_width == event.price * Val(cfg.price_range_width_pct) IN
           << event.price * BandScale - half_width,
              event.price * BandScale + half_width >>
    ELSE IF ~IsNone(cfg.price_range_width_abs)
      THEN LET half_width == Val(cfg.price_range_width_abs) * (BandScale \div 2) IN
           << event.price * BandScale - half_width,
              event.price * BandScale + half_width >>
    ELSE << event.price * BandScale, event.price * BandScale >>

\* list(a_set): the elements in an order the interpreter picks.
ListsOf(S) ==
    { o \in [1..Cardinality(S) -> S] : \A i, j \in DOMAIN o : o[i] = o[j] => i = j }

\* A buffer that is appended to and never evicted.
BtBufferNoEviction(ctx, event, cfg) ==
    Append(ctx.event_buffers[EventKey(event)], event)
\* Lines 71-85: the buffer after append and eviction, and the distinct
\* addresses of its events inside the band.
BtBuffer(ctx, event, cfg) ==
    PopStale(Append(ctx.event_buffers[EventKey(event)], event),
             event.timestamp - cfg.time_window_seconds)

BtSmartAddresses(ctx, event, cfg) ==
    LET band == _bt_get_price_range(event, cfg) IN
    SmartAddresses(BtBuffer(ctx, event, cfg), event, band[1], band[2])

\* The context after the call and the returned dict, None when no signal;
\* addresses is the list made of the address set.
_bt_process_trade_event(ctx, event, cfg, addresses) ==
    LET key == EventKey(event)
        buf == BtBuffer(ctx, event, cfg)
        band == _bt_get_price_range(event, cfg)
        smart_addresses == BtSmartAddresses(ctx, event, cfg)
        smart_count == Cardinality(smart_addresses)
        buffers == [ctx.event_buffers EXCEPT ![key] = buf]
    IN
    IF smart_count < cfg.min_smart_traders
         \/ Debounced(ctx.last_signal_ts, key, event, cfg)
      THEN [ ctx |-> [ event_buffers |-> buffers,
                       last_signal_ts |-> ctx.last_signal_ts ],
             sig |-> None ]
      ELSE [ ctx |-> [ event_buffers |-> buffers,
                       last_signal_ts |->
                          [k \in DOMAIN ctx.last_signal_ts \cup {key} |->
                              IF k = key THEN event.timestamp
                              ELSE ctx.last_signal_ts[k]] ],
             sig |-> Some([ symbol |-> event.symbol, side |-> event.side,
                            price_min |-> band[1], price_max |-> band[2],
                            timestamp |-> event.timestamp,
                            smart_trader_count |-> smart_count,
                            addresses |-> addresses ]) ]

\* Lines 370-387: the last event of the address, symbol and side whose
\* timestamp lies in [signal time - time window, signal time].
MatchedTrade(events, addr, sig, cfg) ==
    LET idx == { j \in 1..Len(events) :
                    /\ events[j].trader_address = addr
                    /\ events[j].symbol = sig.symbol
                    /\ events[j].side = sig.side
                    /\ sig.timestamp - cfg.time_window_seconds <= events[j].timestamp
                    /\ events[j].timestamp <= sig.timestamp }
    IN IF idx = {} THEN None
       ELSE Some(events[CHOOSE j \in idx : \A k \in idx : k <= j])

\* Lines 399-419, for a matched trade that has the attribute entry_price.
Leg(matched_trade, sig, addr, leg_notional, fee_rate_bps) ==
    LET r == IF matched_trade.side = "long"
               THEN ((matched_trade.exit_price[1] - matched_trade.entry_price) * 100)
                        \div matched_trade.entry_price
               ELSE ((matched_trade.entry_price - matched_trade.exit_price[1]) * 100)
                        \div matched_trade.entry_price
        gross_pnl == (leg_notional * r) \div 100
        fee == (leg_notional * fee_rate_bps) \div 10000
    IN [ open_time |-> sig.timestamp,
         close_time |-> IF IsNone(matched_trade.closed_at)
                          THEN matched_trade.timestamp
                          ELSE Val(matched_trade.closed_at),
         pnl |-> gross_pnl - fee, r |-> r,
         symbol |-> sig.symbol, side |-> sig.side,
         trader |-> addr, notional |-> leg_notional ]

\* for addr in addresses (lines 359-425): the legs appended, or raised when
\* matched_trade.entry_price is read on an object without that attribute.
RECURSIVE SignalLegs(_, _, _, _, _, _, _)
SignalLegs(addresses, sig, events, cfg, leg_notional, fee_rate_bps, legs) ==
    IF addresses = <<>>
      THEN [ raised |-> FALSE, legs |-> legs ]
      ELSE LET addr == Head(addresses)
               matched_trade == MatchedTrade(events, addr, sig, cfg)
           IN IF ~IsNone(matched_trade) /\ ~IsNone(Val(matched_trade).exit_price)
                THEN IF "entry_price" \notin DOMAIN Val(matched_trade)
                       THEN [ raised |-> TRUE, legs |-> legs ]
                       ELSE SignalLegs(Tail(addresses), sig, events, cfg,
                                       leg_notional, fee_rate_bps,
                                       Append(legs, Leg(Val(matched_trade), sig, addr,
                                                        leg_notional, fee_rate_bps)))
                ELSE SignalLegs(Tail(addresses), sig, events, cfg,
                                leg_notional, fee_rate_bps, legs)

\* list.sort(key=close_time) is stable: a leg goes after the legs that do
\* not close later than it.
RECURSIVE InsertByCloseTime(_, _)
InsertByCloseTime(sorted, leg) ==
    IF sorted = <<>> THEN << leg >>
    ELSE IF Head(sorted).close_time <= leg.close_time
      THEN << Head(sorted) >> \o InsertByCloseTime(Tail(sorted), leg)
      ELSE << leg >> \o sorted

RECURSIVE SortByCloseTime(_, _)
SortByCloseTime(legs, sorted) ==
    IF legs = <<>> THEN sorted
    ELSE SortByCloseTime(Tail(legs), InsertByCloseTime(sorted, Head(legs)))

\* Lines 450-494: legs are applied in order until one leaves the equity 30%
\* or more under its peak; that leg is kept and the loop breaks.
RECURSIVE Replay(_, _, _, _, _)
Replay(legs, equity, peak_equity, active_drawdown_triggered, acc) ==
    IF legs = <<>> \/ active_drawdown_triggered
      THEN [ virtual_trades |-> acc.virtual_trades, win_count |-> acc.win_count,
             loss_count |-> acc.loss_count, equity |-> equity,
             active_drawdown_triggered |-> active_drawdown_triggered ]
      ELSE LET leg == Head(legs)
               eq == equity + leg.pnl
               peak == IF eq > peak_equity THEN eq ELSE peak_equity
               dd_abs == peak - eq
           IN Replay(Tail(legs), eq, peak,
                     peak > 0 /\ dd_abs * 10 >= 3 * peak,
                     [ virtual_trades |-> Append(acc.virtual_trades, leg),
                       win_count |-> acc.win_count + (IF leg.pnl > 0 THEN 1 ELSE 0),
                       loss_count |-> acc.loss_count + (IF leg.pnl < 0 THEN 1 ELSE 0) ])

RECURSIVE SumSeq(_)
SumSeq(q) == IF q = <<>> THEN 0 ELSE Head(q) + SumSeq(Tail(q))

\* Lines 506-513: the curve rebuilt from the PnLs of the applied legs.
RECURSIVE RebuiltCurve(_, _)
RebuiltCurve(virtual_pnls, equity) ==
    IF virtual_pnls = <<>> THEN << equity >>
    ELSE << equity >> \o RebuiltCurve(Tail(virtual_pnls), equity + Head(virtual_pnls))

max_points == 500

\* Lines 541-546.
EqSamples(equity_curve) ==
    IF Len(equity_curve) > max_points
      THEN LET step == Max2(1, Len(equity_curve) \div max_points) IN
           [ i \in 1..(((Len(equity_curve) - 1) \div step) + 1) |->
                equity_curve[(i - 1) * step + 1] ]
      ELSE equity_curve

\* Lines 496-564.  sharpe = expectancy / sqrt(variance) is kept as the sum
\* of the PnLs over the square root of den_squared.
Summary(params, replay, total_signals) ==
    LET virtual_pnls == [ i \in 1..Len(replay.virtual_trades) |->
                              replay.virtual_trades[i].pnl ]
        total_trades == Len(virtual_pnls)
        equity_curve == RebuiltCurve(virtual_pnls, params.initial_equity)
        equity == equity_curve[Len(equity_curve)]
        total_pnl == equity - params.initial_equity
        wins == SelectSeq(virtual_pnls, LAMBDA x : x > 0)
        losses == SelectSeq(virtual_pnls, LAMBDA x : x < 0)
        squares == [ i \in 1..total_trades |-> virtual_pnls[i] * virtual_pnls[i] ]
        spread == total_trades * SumSeq(squares) - SumSeq(virtual_pnls) * SumSeq(virtual_pnls)
        drawdown == _compute_drawdown_from_equity(equity_curve, params.initial_equity)
    IN [ initial_equity |-> params.initial_equity,
         final_equity |-> equity,
         total_pnl |-> total_pnl,
         total_return_pct |-> IF params.initial_equity > 0
                                THEN << total_pnl, params.initial_equity >>
                                ELSE << 0, 1 >>,
         max_drawdown_abs |-> drawdown.max_dd_abs,
         max_drawdown_pct |-> drawdown.max_dd_pct,
         total_signals |-> total_signals,
         total_trades |-> total_trades,
         win_rate |-> IF total_trades > 0 THEN << replay.win_count, total_trades >>
                      ELSE << 0, 1 >>,
         payoff_ratio |-> IF wins # <<>> /\ losses # <<>>
                            THEN << SumSeq(wins) * Len(losses),
                                    (-SumSeq(losses)) * Len(wins) >>
                            ELSE << 0, 1 >>,
         expectancy |-> IF total_trades > 0
                          THEN << SumSeq(virtual_pnls), total_trades >>
                          ELSE << 0, 1 >>,
         sharpe |-> IF total_trades > 1 /\ spread > 0
                      THEN [ num |-> SumSeq(virtual_pnls), den_squared |-> spread ]
                      ELSE [ num |-> 0, den_squared |-> 1 ],
         equity_curve |-> EqSamples(equity_curve),
         virtual_trades |-> replay.virtual_trades ]

\* Lines 228-237: the summary of a run that selected no trader.
EmptySummary(params) ==
    [ initial_equity |-> params.initial_equity,
      final_equity |-> params.initial_equity,
      total_return_pct |-> << 0, 1 >>,
      max_drawdown_abs |-> 0,
      max_drawdown_pct |-> << 0, 1 >>,
      total_trades |-> 0,
      win_rate |-> << 0, 1 >>,
      equity_curve |-> <<>> ]

\* Lines 218-238: the BacktestRun row of a run that selected no trader.
EmptyRun(params) ==
    [ params |-> params, total_pnl |-> 0, max_drawdown |-> 0,
      win_rate |-> << 0, 1 >>, sharpe |-> [ num |-> 0, den_squared |-> 1 ],
      summary |-> EmptySummary(params) ]

\* Lines 567-578: the BacktestRun row of a run that replayed its legs.
BacktestRun(params, summary) ==
    [ params |-> params, total_pnl |-> summary.total_pnl,
      max_drawdown |-> summary.max_drawdown_abs,
      win_rate |-> summary.win_rate, sharpe |-> summary.sharpe,
      summary |-> summary ]

\* A selection that ignores min_score.
StuRowsAnyScore(rows, params) ==
    { r \in rows :
        /\ r.window_days = params.window_days
        /\ IsNone(params.min_trades_per_day)
              \/ r.trades_per_day >= Val(params.min_trades_per_day) }
\* Lines 193-207: the universe rows of the window that pass the optional
\* score and activity filters; eligible is not looked at.
StuRows(rows, params) ==
    { r \in rows :
        /\ r.window_days = params.window_days
        /\ IsNone(params.min_score) \/ r.score >= Val(params.min_score)
        /\ IsNone(params.min_trades_per_day)
              \/ r.trades_per_day >= Val(params.min_trades_per_day) }

\* Lines 251-285: the trades of the selected traders inside the date range,
\* by opened_at, as events.
BacktestEvents(trades, trader_ids, params) ==
    LET kept == SelectSeq(trades, LAMBDA t :
                    /\ t.trader_id \in trader_ids
                    /\ t.opened_at >= params.start_dt
                    /\ t.opened_at <= params.end_dt)
    IN [ i \in 1..Len(kept) |->
            BacktestTradeEvent(kept[i], TraderAddress[kept[i].trader_id]) ]

\* Locals of a run_backtest call that has read its parameters.
NewRun(params, trades, run, first) ==
    [ pc |-> "start", run |-> run, first |-> first,
      params |-> params, trades |-> trades,
      events |-> <<>>, i |-> 0,
      ctx |-> [ event_buffers |-> [k \in Keys |-> <<>>],
                last_signal_ts |-> [k \in {} |-> 0] ],
      sigs |-> <<>>, returned |-> None, total_signals |-> 0,
      all_legs |-> <<>>, outcome |-> None ]

\* Lines 145-337: select the traders, load their trades, build the events.
run_backtest_select ==
    /\ bt.pc = "start"
    /\ LET stu_rows == StuRows(universe, bt.params)
           trader_ids == { r.trader_id : r \in stu_rows }
       IN IF stu_rows = {}
            THEN LET run == EmptyRun(bt.params) IN
                 /\ backtest_runs' = Append(backtest_runs, run)
                 /\ bt' = [bt EXCEPT !.pc = "over",
                             !.outcome = Some([ status |-> "ok", run |-> run,
                                                summary |-> run.summary ])]
            ELSE /\ bt' = [bt EXCEPT !.pc = "loop", !.i = 1,
                             !.events = BacktestEvents(bt.trades, trader_ids,
                                                       bt.params)]
                 /\ UNCHANGED backtest_runs
    /\ UNCHANGED << liveVars, sel, dd, requests >>

\* Lines 339-425: one iteration of the loop over the events.
run_backtest_event ==
    /\ bt.pc = "loop"
    /\ bt.i <= Len(bt.events)
    /\ LET ev == bt.events[bt.i]
           cfg == bt.params.strategy
       IN \E addresses \in ListsOf(BtSmartAddresses(bt.ctx, ev, cfg)) :
          LET res == _bt_process_trade_event(bt.ctx, ev, cfg, addresses) IN
          IF IsNone(res.sig)
            THEN bt' = [bt EXCEPT !.ctx = res.ctx, !.returned = None, !.i = bt.i + 1]
            ELSE LET sig == Val(res.sig)
                     leg_notional == bt.params.notional_per_signal \div Len(addresses)
                     legs == SignalLegs(addresses, sig, bt.events, cfg, leg_notional,
                                        bt.params.fee_rate_bps, bt.all_legs)
                 IN IF legs.raised
                      THEN bt' = [bt EXCEPT !.ctx = res.ctx, !.returned = res.sig,
                                    !.sigs = Append(bt.sigs, sig),
                                    !.total_signals = bt.total_signals + 1,
                                    !.pc = "over",
                                    !.outcome = Some([ status |-> "AttributeError" ])]
                      ELSE bt' = [bt EXCEPT !.ctx = res.ctx, !.returned = res.sig,
                                    !.sigs = Append(bt.sigs, sig),
                                    !.total_signals = bt.total_signals + 1,
                                    !.all_legs = legs.legs,
                                    !.i = bt.i + 1]
    /\ UNCHANGED << liveVars, sel, dd, backtest_runs, requests >>

\* Lines 427-584: sort the legs, replay them, build and store the summary.
run_backtest_replay ==
    /\ bt.pc = "loop"
    /\ bt.i > Len(bt.events)
    /\ LET all_legs == SortByCloseTime(bt.all_legs, <<>>)
           replay == Replay(all_legs, bt.params.initial_equity,
                            bt.params.initial_equity, FALSE,
                            [ virtual_trades |-> <<>>, win_count |-> 0,
                              loss_count |-> 0 ])
           run == BacktestRun(bt.params,
                              Summary(bt.params, replay, bt.total_signals))
       IN /\ backtest_runs' = Append(backtest_runs, run)
          /\ bt' = [bt EXCEPT !.pc = "over", !.all_legs = all_legs,
                      !.outcome = Some([ status |-> "ok", run |-> run,
                                         summary |-> run.summary ])]
    /\ UNCHANGED << liveVars, sel, dd, requests >>

\* The same request is run a second time against the same tables.
RunAgain ==
    /\ bt.pc = "over"
    /\ bt.run = 1
    /\ bt' = NewRun(bt.params, bt.trades, 2,
                    Some([ outcome |-> Val(bt.outcome), sigs |-> bt.sigs ]))
    /\ UNCHANGED << liveVars, sel, dd, backtest_runs, requests >>

\* Trades of the trades table: open, closed at a loss, closed at a gain.
TradeExits ==
    { [ exit_price |-> None, realized_pnl |-> None, closed_at |-> None ],
      [ exit_price |-> Some(20), realized_pnl |-> Some(-80), closed_at |-> Some(9) ],
      [ exit_price |-> Some(200), realized_pnl |-> Some(100), closed_at |-> Some(9) ] }

OpenedAts == {0, 1, 3}

TradeRows ==
    { [ trader_id |-> id, symbol |-> "BTC", side |-> "long", entry_price |-> 100,
        size |-> 1, opened_at |-> t, exit_price |-> x.exit_price,
        realized_pnl |-> x.realized_pnl, closed_at |-> x.closed_at ] :
        id \in TraderIds, t \in OpenedAts, x \in TradeExits }

\* The trades as the query returns them, by opened_at.
TradeTables ==
    UNION { { q \in [1..n -> TradeRows] :
                \A i \in 1..(n - 1) : q[i].opened_at <= q[i + 1].opened_at } :
            n \in 0..MaxTrades }

BacktestStrategies ==
    { [ time_window_seconds |-> 1, price_range_width_pct |-> Some(2),
        price_range_width_abs |-> None, min_smart_traders |-> m,
        min_signal_interval_seconds |-> m ] : m \in {1, 2} }

\* A universe and a min_score: both traders selected, one of two selected,
\* none selected from an empty universe, none selected by the score.
BacktestSetups ==
    { << RefreshedUniverse(RefreshedUniverse({}, 1, 30, GoodProfile),
                           2, 30, GoodProfile), None >>,
      << RefreshedUniverse(RefreshedUniverse({}, 1, 30, GoodProfile),
                           2, 30, ZeroProfile), Some(5000) >>,
      << {}, None >>,
      << RefreshedUniverse({}, 2, 30, ZeroProfile), Some(5000) >> }

BacktestParams(min_score, strategy) ==
    [ window_days |-> 30, min_score |-> min_score, min_trades_per_day |-> None,
      strategy |-> strategy, initial_equity |-> DEFAULT_INITIAL_EQUITY,
      notional_per_signal |-> 10000, fee_rate_bps |-> 10,
      start_dt |-> 0, end_dt |-> 9 ]

InitBT ==
    /\ InitEngine
    /\ config = CHOOSE c \in StrategyConfigs : TRUE
    /\ sel = Idle
    /\ dd = Idle
    /\ \E setup \in BacktestSetups, strategy \in BacktestStrategies,
          trades \in TradeTables :
          /\ universe = setup[1]
          /\ bt = NewRun(BacktestParams(setup[2], strategy), trades, 1, None)

NextBT ==
    \/ run_backtest_select
    \/ run_backtest_event
    \/ run_backtest_replay
    \/ RunAgain

SpecBT == InitBT /\ [][NextBT]_vars

(***************************************************************************)
(* The two signal engines: a behaviour is either one of the live engine or *)
(* one of a backtest, which runs its own copy on its own context.          *)
(***************************************************************************)
InitEngines == Init \/ InitBT

NextEngines ==
    \/ Next
    \/ NextBT

SpecEngines == InitEngines /\ [][NextEngines]_vars

(***************************************************************************)
(* Two live engines in one process.  process_trade_event takes its         *)
(* configuration per call and keeps its buffers and debounce timestamps in *)
(* the module globals, so a second engine is a caller that passes another  *)
(* configuration.                                                          *)
(***************************************************************************)
FirstInstanceConfig ==
    [ time_window_seconds |-> 1, price_range_width_pct |-> Some(2),
      price_range_width_abs |-> None, min_smart_traders |-> 1,
      min_signal_interval_seconds |-> 1 ]

OtherInstanceConfig ==
    [ time_window_seconds |-> 1, price_range_width_pct |-> None,
      price_range_width_abs |-> Some(2), min_smart_traders |-> 2,
      min_signal_interval_seconds |-> 2 ]

InitShared ==
    /\ InitEngine
    /\ config = FirstInstanceConfig
    /\ sel = Idle
    /\ dd = Idle
    /\ bt = Idle
    /\ universe = RefreshedUniverse(RefreshedUniverse({}, 1, 30, GoodProfile),
                                    2, 30, GoodProfile)

\* From here on the calls are those of the second engine.
OtherInstance ==
    /\ config = FirstInstanceConfig
    /\ config' = OtherInstanceConfig
    /\ last_call' = [ op |-> "other_instance" ]
    /\ UNCHANGED << universe, EVENT_BUFFERS, LAST_SIGNAL_TS, signals,
                    follower_trades, feed_ts, num_events, sel, dd, bt, riskVars, backtest_runs, requests >>

NextShared ==
    \/ FeedTradeEventExec
    \/ OtherInstance

SpecShared == InitShared /\ [][NextShared]_vars

(***************************************************************************)
(* One eligible address trades three times on one side at one price; the   *)
(* engine requires a single smart trader.                                  *)
(***************************************************************************)
ScenarioConfigs ==
    { [ time_window_seconds |-> tw, price_range_width_pct |-> band[1],
        price_range_width_abs |-> band[2], min_smart_traders |-> 1,
        min_signal_interval_seconds |-> interval ] :
        tw \in {0, 1, 300}, interval \in {0, 1, 2, 3},
        band \in { << Some(2), None >>, << None, Some(2) >>, << None, None >> } }

InitScenario ==
    /\ InitEngine
    /\ config \in ScenarioConfigs
    /\ sel = Idle
    /\ dd = Idle
    /\ bt = Idle
    /\ universe = RefreshedUniverse({}, 1, 30, GoodProfile)

\* The first event picks the side, the later ones repeat it.
FeedScenarioEvent ==
    /\ num_events < 3
    /\ \E side \in Sides, t \in feed_ts..(feed_ts + MaxGap) :
          /\ num_events = 0 \/ EVENT_BUFFERS[<<"BTC", side>>] # <<>>
          /\ process_trade_event([ trader_address |-> "a1", symbol |-> "BTC",
                                   side |-> side, price |-> 100, size |-> 1,
                                   timestamp |-> t ])

NextScenario == FeedScenarioEvent

SpecScenario == InitScenario /\ [][NextScenario]_vars

(***************************************************************************)
(* Properties of the signal engine.                                        *)
(***************************************************************************)
Abs(x) == IF x < 0 THEN -x ELSE x

SameKey(s1, s2) == s1.symbol = s2.symbol /\ s1.side = s2.side

\* Emitted signals of one engine, as records with symbol, side, created_at.
SpacedApart(sigs, cfg) ==
    \A i, j \in 1..Len(sigs) :
        (i < j /\ SameKey(sigs[i], sigs[j]))
            => Abs(sigs[j].created_at - sigs[i].created_at)
                   >= cfg.min_signal_interval_seconds

\* The signal dicts of the running backtest, with the timestamp of the event
\* under the name the Signal rows use.
BtSignals ==
    [ i \in 1..Len(bt.sigs) |->
        [ symbol |-> bt.sigs[i].symbol, side |-> bt.sigs[i].side,
          created_at |-> bt.sigs[i].timestamp ] ]

\* C1: any two signals emitted by one engine (process_trade_event, or
\* _bt_process_trade_event within one backtest run) for the same
\* (symbol, side) have event timestamps at least
\* min_signal_interval_seconds apart.
C1_DebounceSpacing ==
    /\ SpacedApart(signals, config)
    /\ bt # Idle => SpacedApart(BtSignals, bt.params.strategy)

\* Two signals of one key exactly min_signal_interval_seconds apart, the
\* interval being positive.
C1_Witness ==
    \E i, j \in 1..Len(signals) :
        /\ i < j
        /\ SameKey(signals[i], signals[j])
        /\ config.min_signal_interval_seconds > 0
        /\ signals[j].created_at - signals[i].created_at
              = config.min_signal_interval_seconds

\* Events of a buffer that lie inside the time window ending at timestamp T.
InWindow(buf, T, cfg) ==
    { i \in 1..Len(buf) : buf[i].timestamp >= T - cfg.time_window_seconds }

NoStaleEvent(buf, cfg) ==
    buf # <<>> => InWindow(buf, buf[Len(buf)].timestamp, cfg) = 1..Len(buf)

\* Addresses of the events of buf inside the window ending at T and inside
\* the band.
WindowAddresses(buf, T, cfg, price_min, price_max) ==
    { buf[i].trader_address : i \in
        { j \in InWindow(buf, T, cfg) :
            price_min <= buf[j].price * BandScale
              /\ buf[j].price * BandScale <= price_max } }

\* C2: after an event with timestamp T is processed, by the live engine or
\* by the engine of a backtest run, the buffer of its key holds no event
\* older than T - time_window_seconds, and a signal emitted for the event
\* counts and lists only addresses of events inside the window.
C2_EvictionCorrect ==
    /\ \A k \in Keys : NoStaleEvent(EVENT_BUFFERS[k], config)
    /\ (last_call.op = "process_trade_event" /\ ~IsNone(last_call.returned))
          => LET sig == signals[Val(last_call.returned)]
                 inwin == WindowAddresses(EVENT_BUFFERS[<<sig.symbol, sig.side>>],
                                          sig.created_at, config,
                                          sig.price_range_min, sig.price_range_max)
             IN  /\ sig.trader_addresses = inwin
                 /\ sig.smart_trader_count = Cardinality(inwin)
    /\ bt # Idle =>
          /\ \A k \in Keys :
                NoStaleEvent(bt.ctx.event_buffers[k], bt.params.strategy)
          /\ ~IsNone(bt.returned) =>
                LET sig == Val(bt.returned)
                    inwin == WindowAddresses(
                                 bt.ctx.event_buffers[<<sig.symbol, sig.side>>],
                                 sig.timestamp, bt.params.strategy,
                                 sig.price_min, sig.price_max)
                IN  /\ { sig.addresses[i] : i \in DOMAIN sig.addresses } = inwin
                    /\ sig.smart_trader_count = Cardinality(inwin)

\* A signal was emitted by an event whose arrival evicted the events of an
\* earlier signal of the same key: that signal lies before the window and the
\* buffer holds the new event only.
C2_Witness ==
    /\ last_call.op = "process_trade_event"
    /\ ~IsNone(last_call.returned)
    /\ LET sig == signals[Val(last_call.returned)]
           buf == EVENT_BUFFERS[<<sig.symbol, sig.side>>]
       IN  /\ Len(buf) = 1
           /\ Len(signals) >= 2
           /\ \E i \in 1..(Len(signals) - 1) :
                 /\ SameKey(signals[i], sig)
                 /\ signals[i].created_at < sig.created_at - config.time_window_seconds

(***************************************************************************)
(* Properties of signal execution.                                         *)
(***************************************************************************)
TradesOfSignal(signal_id) ==
    { i \in 1..Len(follower_trades) : follower_trades[i].signal_id = signal_id }

ExecutedOnce ==
    \A id \in 1..Len(signals) :
        Cardinality(TradesOfSignal(id)) = IF signals[id].executed THEN 1 ELSE 0

ExecutedNeverReverts ==
    \A id \in 1..Len(signals) : signals[id].executed => signals'[id].executed

RepeatedExecuteIsError ==
    (/\ last_call'.op = "execute_signal"
     /\ last_call'.signal_id \in 1..Len(signals)
     /\ signals[last_call'.signal_id].executed)
        => /\ last_call'.outcome = "ValueError: already executed"
           /\ follower_trades' = follower_trades
           /\ signals' = signals

\* C5: a Signal's executed flag never returns to false and is set by at most
\* one execute_signal call (one follower trade per executed signal, none
\* otherwise); execute_signal on an executed signal raises an error, opens
\* no follower trade and leaves the signal unchanged.
C5_ExecutedOnce ==
    [][ExecutedOnce' /\ ExecutedNeverReverts /\ RepeatedExecuteIsError]_vars

\* execute_signal was called on a signal that had been executed before.
C5_Witness ==
    /\ last_call.op = "execute_signal"
    /\ last_call.outcome = "ValueError: already executed"
    /\ signals[last_call.signal_id].executed
    /\ Cardinality(TradesOfSignal(last_call.signal_id)) = 1

(***************************************************************************)
(* Properties of the smart universe.                                       *)
(***************************************************************************)
RowsOfKey(rows, trader_id, window_days) ==
    { r \in rows : r.trader_id = trader_id /\ r.window_days = window_days }

OneRowPerKey ==
    \A t \in TraderIds, w \in WindowDaysValues :
        Cardinality(RowsOfKey(universe, t, w)) <= 1

\* The row carries every value of the refresh result x.
RowMatches(r, x) ==
    /\ r.pnl_window = x.metrics.pnl
    /\ r.win_rate_window = x.metrics.win_rate
    /\ r.volatility_window = x.metrics.volatility
    /\ r.max_drawdown_window = x.metrics.max_drawdown
    /\ r.sharpe_window = x.metrics.sharpe_window
    /\ r.num_trades = x.metrics.num_trades
    /\ r.active_days = x.metrics.active_days
    /\ r.trades_per_day = x.metrics.trades_per_day
    /\ r.avg_win_r = x.metrics.avg_win_r
    /\ r.avg_loss_r = x.metrics.avg_loss_r
    /\ r.payoff_ratio = x.metrics.payoff_ratio
    /\ r.expectancy = x.metrics.expectancy
    /\ r.min_trade_r = x.metrics.min_trade_r
    /\ r.max_drawdown_pct = x.metrics.max_drawdown_pct
    /\ r.eligible = x.eligible
    /\ r.score = x.score
    /\ r.filters_snapshot = DEFAULT_CONFIG

IsRefresh(call) ==
    call.op \in {"compute_metrics_for_trader", "refresh_smart_universe"}

RefreshedRowsFresh ==
    IsRefresh(last_call) =>
        \A t \in DOMAIN last_call.refreshed :
            /\ RowsOfKey(universe, t, last_call.window_days) # {}
            /\ \A r \in RowsOfKey(universe, t, last_call.window_days) :
                  RowMatches(r, last_call.refreshed[t])

\* A refresh leaves the rows of the keys it does not refresh as they are.
OtherKeysKept ==
    IsRefresh(last_call') =>
        \A t \in TraderIds, w \in WindowDaysValues :
            (t \notin DOMAIN last_call'.refreshed \/ w # last_call'.window_days)
                => RowsOfKey(universe', t, w) = RowsOfKey(universe, t, w)

\* C6: after any sequence of refreshes the universe holds at most one entry
\* per (trader_id, window_days), the entry of a refreshed key carries the
\* profile, eligibility, score and filters_snapshot of that refresh, and a
\* refresh of one key changes the entry of no other key.
C6_UpsertOnePerKey ==
    [][OneRowPerKey' /\ RefreshedRowsFresh' /\ OtherKeysKept]_vars

\* Every key has its one row and the latest refresh wrote the 7-day row of a
\* trader as not eligible while the trader's 30-day row is eligible.
C6_Witness ==
    /\ last_call.op = "compute_metrics_for_trader"
    /\ Cardinality(universe) = 4
    /\ \A t \in TraderIds, w \in WindowDaysValues :
          Cardinality(RowsOfKey(universe, t, w)) = 1
    /\ \E t \in DOMAIN last_call.refreshed :
          \E r \in RowsOfKey(universe, t, last_call.window_days) :
              /\ ~r.eligible
              /\ r.window_days = 7
              /\ \E q \in RowsOfKey(universe, t, 30) : q.eligible

(***************************************************************************)
(* Properties of the selection engine.                                     *)
(***************************************************************************)
\* A score of 1.0, in ten-thousandths (the weights 4, 3, 2, 1 of One).
ScoreOne == 10 * One

ScoreInRange(result) ==
    IF result.eligible
      THEN 0 <= result.score /\ result.score <= ScoreOne
      ELSE result.score = 0

\* C7: evaluate_trader_profile returns a score in [0,1] when eligible is
\* true and a score of exactly 0 when eligible is false.
C7_ScoreRange ==
    /\ sel.pc \in {"evaluated", "compared"} => ScoreInRange(sel.result)
    /\ sel.pc = "compared" => ScoreInRange(sel.better_result)

\* An eligible profile whose expectancy, payoff ratio and frequency are all
\* above their targets, with no drawdown: every component is clamped to 1.
C7_Witness ==
    /\ sel.pc = "evaluated"
    /\ sel.result.eligible
    /\ sel.result.score = ScoreOne
    /\ sel.metrics.expectancy > sel.config.target_expectancy
    /\ sel.config.target_expectancy > 0

\* C8: of two profiles that pass the hard filters under one configuration
\* and differ in one component only, the one with the better value of that
\* component never gets the lower score.
C8_Monotonic ==
    (sel.pc = "compared" /\ sel.result.eligible /\ sel.better_result.eligible)
        => sel.better_result.score >= sel.result.score

\* Two eligible profiles that differ in the drawdown only, the one with
\* the lower drawdown scoring strictly higher.
C8_Witness ==
    /\ sel.pc = "compared"
    /\ sel.component = "max_drawdown_pct"
    /\ sel.result.eligible
    /\ sel.better_result.eligible
    /\ sel.better_result.score > sel.result.score

(***************************************************************************)
(* Properties of the drawdown computation.                                 *)
(***************************************************************************)
RatioEq(r1, r2) == r1[1] * r2[2] = r2[1] * r1[2]
RatioLess(r1, r2) == r1[1] * r2[2] < r2[1] * r1[2]

\* The largest (peak - eq) / peak over the curve, peak being the running
\* peak at that point.
RECURSIVE PeakRelativeDrawdown(_, _, _)
PeakRelativeDrawdown(equity_curve, peak, best) ==
    IF equity_curve = <<>>
      THEN best
      ELSE LET eq == Head(equity_curve)
               new_peak == IF eq > peak THEN eq ELSE peak
               here == << new_peak - eq, new_peak >>
           IN PeakRelativeDrawdown(Tail(equity_curve), new_peak,
                                   IF RatioLess(best, here) THEN here ELSE best)

\* C10: the max_drawdown_pct computed from an equity curve is the drawdown
\* relative to the running peak equity, not to the initial equity; for
\* [10000, 10500, 9000, 9500] with initial equity 10000 it is 1500/10500,
\* with max_drawdown_abs = 1500.
C10_PeakRelative ==
    dd.pc = "computed" =>
        /\ RatioEq(dd.result.max_dd_pct,
                   PeakRelativeDrawdown(dd.equity_curve, dd.initial_equity,
                                        << 0, 1 >>))
        /\ dd.equity_curve = << 10000, 10500, 9000, 9500 >> =>
              /\ dd.result.max_dd_abs = 1500
              /\ RatioEq(dd.result.max_dd_pct, << 1500, 10500 >>)

(***************************************************************************)
(* Properties of the backtest.                                             *)
(***************************************************************************)
\* Index of the first leg after which the equity is 30% or more under its
\* running peak, 0 when there is none.
RECURSIVE FirstBreach(_, _, _, _)
FirstBreach(legs, i, equity, peak) ==
    IF i > Len(legs) THEN 0
    ELSE LET eq == equity + legs[i].pnl
             pk == IF eq > peak THEN eq ELSE peak
         IN IF pk > 0 /\ (pk - eq) * 10 >= 3 * pk THEN i
            ELSE FirstBreach(legs, i + 1, eq, pk)

\* The legs up to and including the halting one, all legs without a halt.
AppliedLegs(legs, initial_equity) ==
    LET halt == FirstBreach(legs, 1, initial_equity, initial_equity) IN
    IF halt = 0 THEN legs ELSE SubSeq(legs, 1, halt)

PnlOf(legs) == [ i \in 1..Len(legs) |-> legs[i].pnl ]

RunOver == bt.pc = "over"
RunStatus == Val(bt.outcome).status
RunSummary == Val(bt.outcome).summary
RunApplied == AppliedLegs(bt.all_legs, bt.params.initial_equity)

\* C3: a run ends with a final equity equal to the initial equity plus the
\* net PnL of exactly the legs applied, in ascending close-time order, up
\* to and including a drawdown halt; no later leg is in the equity, in the
\* equity curve or in the leg list.
C3_FinalEquity ==
    RunOver =>
        /\ RunStatus = "ok"
        /\ RunSummary.final_equity =
              bt.params.initial_equity + SumSeq(PnlOf(RunApplied))
        /\ RunSummary.total_trades > 0 =>
              /\ RunSummary.virtual_trades = RunApplied
              /\ RunSummary.equity_curve =
                    RebuiltCurve(PnlOf(RunApplied), bt.params.initial_equity)

\* C4: the first leg that leaves the drawdown at or over the limit is the
\* last leg applied, and total_trades, win rate and expectancy of the
\* summary are those of exactly the applied legs.
C4_HaltAtFirstBreach ==
    RunOver =>
        /\ RunStatus = "ok"
        /\ RunSummary.total_trades = Len(RunApplied)
        /\ RunSummary.total_trades > 0 =>
              /\ RunSummary.virtual_trades[Len(RunApplied)] = RunApplied[Len(RunApplied)]
              /\ RunSummary.win_rate =
                    << Len(SelectSeq(PnlOf(RunApplied), LAMBDA x : x > 0)),
                       Len(RunApplied) >>
              /\ RunSummary.expectancy =
                    << SumSeq(PnlOf(RunApplied)), Len(RunApplied) >>

\* C9: two runs of run_backtest on the same universe rows, trades, date
\* range and parameters each produce a summary, and the two summaries are
\* identical (applied legs in order, halt point, equity curve), whatever
\* the order in which the addresses of a signal are iterated.
C9_Deterministic ==
    (RunOver /\ bt.run = 2) =>
        /\ RunStatus = "ok"
        /\ Val(bt.first).outcome.status = "ok"
        /\ RunSummary = Val(bt.first).outcome.summary

(***************************************************************************)
(* Properties of the price band.                                           *)
(***************************************************************************)
\* The band lies as far above the price as below it, and is the price
\* itself when the configuration has neither width.
SymmetricBand(price_min, price_max, price, cfg) ==
    /\ price_max - price * BandScale = price * BandScale - price_min
    /\ (IsNone(cfg.price_range_width_pct) /\ IsNone(cfg.price_range_width_abs))
          => price_min = price * BandScale /\ price_max = price * BandScale

LiveEmitted == last_call.op = "process_trade_event" /\ ~IsNone(last_call.returned)
LiveEmittedSignal == signals[Val(last_call.returned)]
\* The event that triggered the signal is the newest one of its buffer.
LiveTriggeringEvent ==
    LET buf == EVENT_BUFFERS[<<LiveEmittedSignal.symbol, LiveEmittedSignal.side>>]
    IN buf[Len(buf)]

BtEmitted == bt # Idle /\ ~IsNone(bt.returned)
BtTriggeringEvent ==
    LET sig == Val(bt.returned)
        buf == bt.ctx.event_buffers[<<sig.symbol, sig.side>>]
    IN buf[Len(buf)]

\* C11: the price band of an emitted signal is symmetric around the price
\* of the triggering event, under a percentage width, an absolute width or
\* neither, and is the exact price when no width is configured.
C11_SymmetricBand ==
    /\ LiveEmitted =>
          SymmetricBand(LiveEmittedSignal.price_range_min,
                        LiveEmittedSignal.price_range_max,
                        LiveTriggeringEvent.price, config)
    /\ BtEmitted =>
          SymmetricBand(Val(bt.returned).price_min, Val(bt.returned).price_max,
                        BtTriggeringEvent.price, bt.params.strategy)

\* A signal emitted under an absolute width, its band wider than a point.
C11_Witness ==
    /\ LiveEmitted
    /\ IsNone(config.price_range_width_pct)
    /\ ~IsNone(config.price_range_width_abs)
    /\ LiveEmittedSignal.price_range_max > LiveEmittedSignal.price_range_min

(***************************************************************************)
(* Properties of engine instances.                                         *)
(***************************************************************************)
EmptyBuffers == [k \in Keys |-> <<>>]

\* The state an engine is handed when its first call is about to be made.
StartsEmpty ==
    last_call'.op = "other_instance" =>
        /\ EVENT_BUFFERS' = EmptyBuffers
        /\ DOMAIN LAST_SIGNAL_TS' = {}

\* The first call of an engine sees its own event only: one buffered
\* event, and a signal, if any, of that one address.
FirstCallSeesOwnEvent ==
    (last_call.op = "other_instance" /\ last_call'.op = "process_trade_event") =>
        /\ \A k \in Keys : Len(EVENT_BUFFERS'[k]) <= 1
        /\ ~IsNone(last_call'.returned) =>
              signals'[Val(last_call'.returned)].smart_trader_count = 1

\* C12: the window buffers and debounce timestamps belong to one engine
\* instance: an instance starts from empty state, and the events of
\* another instance are never in the buffers it counts, evicts from or
\* debounces against.
C12_InstanceIsolation == [][StartsEmpty /\ FirstCallSeesOwnEvent]_vars

(***************************************************************************)
(* Properties of eligibility in the live engine.                           *)
(***************************************************************************)
\* C13: under any interleaving of universe refreshes and live trade events,
\* every address of an emitted signal's trader_addresses has a universe row
\* with eligible = true at the moment the signal is emitted.
C13_AddressesEligible ==
    LiveEmitted =>
        \A a \in LiveEmittedSignal.trader_addresses : SmartRowExists(universe, a)

HasEligibleRow(address) ==
    \E r \in universe : TraderAddress[r.trader_id] = address /\ r.eligible

BufferedEvents == Len(EVENT_BUFFERS[<<"BTC", "long">>]) + Len(EVENT_BUFFERS[<<"BTC", "short">>])

\* C14: a trade event whose address has no universe row with eligible =
\* true is a no-op for process_trade_event: no signal is returned or
\* stored, and no window buffer and no debounce timestamp changes.
C14_IneligibleNoOp ==
    [][ num_events' = num_events + 1 =>
          \A event \in FeedEvents :
            (/\ event.timestamp = feed_ts'
             /\ ~HasEligibleRow(event.trader_address)
             /\ process_trade_event(event))
                => /\ IsNone(last_call'.returned)
                   /\ UNCHANGED << EVENT_BUFFERS, LAST_SIGNAL_TS, signals >> ]_vars

\* Two events were fed and one signal emitted; the first event was taken
\* and the second, of an address that is not eligible, was dropped.
C14_Witness ==
    /\ config = FirstInstanceConfig
    /\ num_events = 2
    /\ feed_ts <= 1
    /\ Len(signals) = 1
    /\ BufferedEvents = 1
    /\ last_call.op = "process_trade_event"
    /\ IsNone(last_call.returned)

MaxPositions == 2
MaxRiskEvents == 2

RISK_DEFAULT_INITIAL_EQUITY == 10000
DEFAULT_MAX_DRAWDOWN_PCT == 300

\* Python truthiness of an optional number: None and 0 are both false.
Truthy(o) == ~IsNone(o) /\ Val(o) # 0

ClosedTrade(trade, price, timestamp, now) ==
    LET closed_at == IF ~IsNone(timestamp) THEN Val(timestamp) ELSE now
        exit_price == IF Truthy(price) THEN Val(price) ELSE trade.entry_price
        realized_pnl == IF exit_price # 0 /\ trade.entry_price # 0
                          THEN IF trade.side = "long"
                                 THEN (exit_price - trade.entry_price) * trade.size
                               ELSE (trade.entry_price - exit_price) * trade.size
                        ELSE 0
    IN [trade EXCEPT !.exit_price = Some(exit_price),
                     !.closed_at = Some(closed_at),
                     !.realized_pnl = realized_pnl,
                     !.is_open = FALSE]

\* close_position returns None on every path and raises on none; `raised`
\* records the exception the caller sees.
close_position(follower_trade_id, price, timestamp, now) ==
    /\ IF \/ follower_trade_id \notin 1..Len(follower_trades)
          \/ ~follower_trades[follower_trade_id].is_open
         THEN UNCHANGED follower_trades
       ELSE follower_trades' =
                [follower_trades EXCEPT ![follower_trade_id] =
                    ClosedTrade(follower_trades[follower_trade_id], price, timestamp, now)]
    /\ last_call' = [ op |-> "close_position",
                      follower_trade_id |-> follower_trade_id,
                      raised |-> None ]
    /\ UNCHANGED << universe, engineVars, signals, sel, dd, bt, riskVars, backtest_runs, requests >>

_get_or_create_risk_config(table) ==
    IF ~IsNone(table) THEN table
    ELSE Some([ max_drawdown_pct |-> DEFAULT_MAX_DRAWDOWN_PCT ])

\* sorted() is stable: trades closed at the same time keep their table order.
RECURSIVE InsertByClosedAt(_, _)
InsertByClosedAt(sorted, trade) ==
    IF sorted = <<>> THEN << trade >>
    ELSE IF Val(Head(sorted).closed_at) <= Val(trade.closed_at)
      THEN << Head(sorted) >> \o InsertByClosedAt(Tail(sorted), trade)
      ELSE << trade >> \o sorted

RECURSIVE closed_trades(_, _)
closed_trades(trades, sorted) ==
    IF trades = <<>> THEN sorted
    ELSE closed_trades(Tail(trades),
                       IF ~IsNone(Head(trades).closed_at)
                         THEN InsertByClosedAt(sorted, Head(trades))
                       ELSE sorted)

RECURSIVE EquityScan(_, _, _, _)
EquityScan(closed, equity, peak_equity, max_drawdown_abs) ==
    IF closed = <<>>
      THEN [ equity |-> equity, max_drawdown_abs |-> max_drawdown_abs ]
    ELSE LET eq == equity + Head(closed).realized_pnl
             peak == IF eq > peak_equity THEN eq ELSE peak_equity
             drawdown == peak - eq
         IN EquityScan(Tail(closed), eq, peak,
                       IF drawdown > max_drawdown_abs THEN drawdown
                       ELSE max_drawdown_abs)

compute_equity_and_drawdown(trades, initial_equity) ==
    LET scan == EquityScan(closed_trades(trades, <<>>),
                           initial_equity, initial_equity, 0)
    IN [ current_equity |-> scan.equity,
         max_drawdown_abs |-> scan.max_drawdown_abs,
         max_drawdown_pct |-> IF initial_equity > 0
                                THEN << scan.max_drawdown_abs, initial_equity >>
                              ELSE << 0, 1 >> ]

\* A trigger that fires only strictly above the threshold.
RiskTriggeredStrictlyAbove(max_dd_pct, threshold) ==
    RatioLess(<< threshold, One >>, max_dd_pct)
RiskTriggered(max_dd_pct, threshold) ==
    ~RatioLess(max_dd_pct, << threshold, One >>)

check_and_enforce_risk_limits ==
    LET cfg == _get_or_create_risk_config(risk_config)
        m == compute_equity_and_drawdown(follower_trades, RISK_DEFAULT_INITIAL_EQUITY)
        risk_triggered == RiskTriggered(m.max_drawdown_pct, Val(cfg).max_drawdown_pct)
        event == [ event_type |-> "MAX_DRAWDOWN_HIT",
                   details |-> [ current_equity |-> m.current_equity,
                                 max_drawdown_abs |-> m.max_drawdown_abs,
                                 max_drawdown_pct |-> m.max_drawdown_pct,
                                 threshold |-> Val(cfg).max_drawdown_pct ] ]
        events == IF risk_triggered THEN Append(risk_events, event) ELSE risk_events
    IN
    /\ risk_config' = cfg
    /\ risk_events' = events
    /\ last_call' = [ op |-> "check_and_enforce_risk_limits",
                      config |-> cfg,
                      current_equity |-> m.current_equity,
                      max_drawdown_abs |-> m.max_drawdown_abs,
                      max_drawdown_pct |-> m.max_drawdown_pct,
                      risk_triggered |-> risk_triggered,
                      last_event |-> IF events = <<>> THEN None
                                     ELSE Some(events[Len(events)]) ]
    /\ UNCHANGED << universe, engineVars, signals, follower_trades, sel, dd, bt,
                    backtest_runs, requests >>

\* Inputs of the ledger: one position size and entry price, exits 30% below
\* and above the entry, a close either stamped by the caller with an earlier time
\* or by the clock, and the default threshold or none at all.
ClockNow == 2

InitRisk ==
    /\ EVENT_BUFFERS = [k \in Keys |-> <<>>]
    /\ LAST_SIGNAL_TS = [k \in {} |-> 0]
    /\ signals = <<>>
    /\ follower_trades = <<>>
    /\ feed_ts = 0
    /\ num_events = 0
    /\ last_call = [op |-> "init"]
    /\ universe = {}
    /\ config = CHOOSE c \in StrategyConfigs : TRUE
    /\ sel = Idle
    /\ dd = Idle
    /\ bt = Idle
    /\ risk_config \in {None} \cup { Some([ max_drawdown_pct |-> t ]) : t \in {0, 300} }
    /\ risk_events = <<>>
    /\ backtest_runs = <<>>
    /\ requests = <<>>

OpenPosition ==
    /\ Len(follower_trades) < MaxPositions
    /\ \E side \in Sides, price \in {Some(100)}, notional \in {100} :
          follower_trades' = Append(follower_trades,
                                    open_position("BTC", side, notional, price, None))
    /\ last_call' = [ op |-> "open_position", returned |-> Len(follower_trades) + 1 ]
    /\ UNCHANGED << universe, engineVars, signals, sel, dd, bt, riskVars, backtest_runs, requests >>

ClosePosition ==
    \E follower_trade_id \in 1..(MaxPositions + 1), price \in {Some(70), Some(130)},
       timestamp \in {None, Some(1)} :
          close_position(follower_trade_id, price, timestamp, ClockNow)

CheckRisk ==
    /\ Len(risk_events) < MaxRiskEvents
    /\ check_and_enforce_risk_limits

NextRisk == OpenPosition \/ ClosePosition \/ CheckRisk

SpecRisk == InitRisk /\ [][NextRisk]_vars

ConfiguredThreshold(table) ==
    IF IsNone(table) THEN DEFAULT_MAX_DRAWDOWN_PCT ELSE Val(table).max_drawdown_pct

RiskCheckContract ==
    last_call'.op = "check_and_enforce_risk_limits" =>
        LET r == last_call'
            threshold == ConfiguredThreshold(risk_config)
            n == Len(risk_events)
        IN /\ r.risk_triggered <=>
                  r.max_drawdown_pct[1] * One >= threshold * r.max_drawdown_pct[2]
           /\ IF r.risk_triggered
                THEN /\ Len(risk_events') = n + 1
                     /\ risk_events'[n + 1].event_type = "MAX_DRAWDOWN_HIT"
                     /\ risk_events'[n + 1].details.current_equity = r.current_equity
                     /\ risk_events'[n + 1].details.max_drawdown_abs = r.max_drawdown_abs
                     /\ risk_events'[n + 1].details.max_drawdown_pct = r.max_drawdown_pct
                     /\ risk_events'[n + 1].details.threshold = threshold
              ELSE Len(risk_events') = n
           /\ \A i \in 1..n : risk_events'[i] = risk_events[i]

\* C16: every check_and_enforce_risk_limits call returns risk_triggered = true
\* exactly when the max_drawdown_pct it computed is at or above the configured
\* threshold; when triggered it appends exactly one MAX_DRAWDOWN_HIT event
\* carrying the equity, the drawdown and the threshold, otherwise it appends
\* none; the events recorded before the call stay as they were.
C16_RiskCheck == [][RiskCheckContract]_vars

\* A check found the drawdown exactly at the default threshold (a 3000 loss on
\* 10000) and triggered while an earlier event was already on record.
C16_Witness ==
    /\ last_call.op = "check_and_enforce_risk_limits"
    /\ last_call.risk_triggered
    /\ last_call.max_drawdown_pct = << 3000, RISK_DEFAULT_INITIAL_EQUITY >>
    /\ Val(last_call.config).max_drawdown_pct = DEFAULT_MAX_DRAWDOWN_PCT
    /\ Len(risk_events) = 2
    /\ risk_events[1].details.max_drawdown_abs = 3000

ClosesClosedPosition ==
    /\ last_call'.op = "close_position"
    /\ last_call'.follower_trade_id \in 1..Len(follower_trades)
    /\ ~follower_trades[last_call'.follower_trade_id].is_open

\* C17: close_position called on a follower position that is already closed
\* reports an error to its caller.
C17_CloseClosedIsError ==
    [][ClosesClosedPosition => ~IsNone(last_call'.raised)]_vars

(***************************************************************************)
(* Metrics aggregation (metrics_service.py, compute_metrics_for_trader).   *)
(* Times are whole days; R-multiples, rates and ratios are in thousandths, *)
(* with quotients truncated to the thousandth.                             *)
(***************************************************************************)
MaxMetricsTrades == 2

\* The rows the query returns: the trader's trades opened inside the window,
\* in opened_at order (the table is kept in that order).
TradesInWindow(table, trader_id, window_start) ==
    SelectSeq(table, LAMBDA t : t.trader_id = trader_id /\ t.opened_at >= window_start)

\* Active days counted from the opening timestamps alone.
active_datesOpenedOnly(trades) ==
    { trades[i].opened_at : i \in 1..Len(trades) }
active_dates(trades) ==
    { trades[i].opened_at : i \in 1..Len(trades) }
        \cup { Val(trades[i].closed_at) :
                 i \in { j \in 1..Len(trades) : ~IsNone(trades[j].closed_at) } }

ValidR(t) == ~IsNone(t.realized_pnl) /\ t.entry_price * t.size # 0

TradeR(t) == (Val(t.realized_pnl) * One) \div (t.entry_price * t.size)

RECURSIVE RsOf(_)
RsOf(trades) ==
    IF trades = <<>> THEN <<>>
    ELSE IF ValidR(Head(trades))
      THEN << TradeR(Head(trades)) >> \o RsOf(Tail(trades))
      ELSE RsOf(Tail(trades))

RECURSIVE ValidPnl(_)
ValidPnl(trades) ==
    IF trades = <<>> THEN 0
    ELSE (IF ValidR(Head(trades)) THEN Val(Head(trades).realized_pnl) ELSE 0)
            + ValidPnl(Tail(trades))

RECURSIVE MinOfSeq(_)
MinOfSeq(q) ==
    IF Len(q) = 1 THEN q[1]
    ELSE LET rest == MinOfSeq(Tail(q)) IN IF Head(q) < rest THEN Head(q) ELSE rest

RECURSIVE MaxOfSeq(_)
MaxOfSeq(q) ==
    IF Len(q) = 1 THEN q[1]
    ELSE LET rest == MaxOfSeq(Tail(q)) IN IF Head(q) > rest THEN Head(q) ELSE rest

\* math.sqrt, truncated; the root of a variance is at most the spread.
ISqrt(n, spread) == CHOOSE k \in 0..spread : k * k <= n /\ (k + 1) * (k + 1) > n

RECURSIVE SumSquares(_, _)
SumSquares(rs, mean_r) ==
    IF rs = <<>> THEN 0
    ELSE (Head(rs) - mean_r) * (Head(rs) - mean_r) + SumSquares(Tail(rs), mean_r)

\* The synthetic equity curve, compounding from 1.0.
RECURSIVE RDrawdownScan(_, _, _, _, _)
RDrawdownScan(rs, equity, peak_equity, max_drawdown_abs, max_drawdown_pct) ==
    IF rs = <<>>
      THEN [ max_drawdown_abs |-> max_drawdown_abs,
             max_drawdown_pct |-> max_drawdown_pct ]
    ELSE LET eq == (equity * (One + Head(rs))) \div One
             peak == IF eq > peak_equity THEN eq ELSE peak_equity
             drawdown_abs == peak - eq
             drawdown_pct == IF peak > 0 THEN (drawdown_abs * One) \div peak ELSE 0
         IN RDrawdownScan(Tail(rs), eq, peak,
                          IF drawdown_abs > max_drawdown_abs
                            THEN drawdown_abs ELSE max_drawdown_abs,
                          IF drawdown_pct > max_drawdown_pct
                            THEN drawdown_pct ELSE max_drawdown_pct)

\* The win rate with the flat trades left in the denominator.
directional_win_rateOverAllTrades(rs) ==
    LET win_rs == SelectSeq(rs, LAMBDA r : r > 0)
    IN IF Len(rs) > 0 THEN (Len(win_rs) * One) \div Len(rs) ELSE 0
directional_win_rate(rs) ==
    LET win_rs == SelectSeq(rs, LAMBDA r : r > 0)
        loss_rs == SelectSeq(rs, LAMBDA r : r < 0)
        count_directional == Len(win_rs) + Len(loss_rs)
    IN IF count_directional > 0
         THEN (Len(win_rs) * One) \div count_directional ELSE 0

\* The payoff ratio without the cap for a trader who never lost.
payoffZeroWithoutLosses(avg_win_r, avg_loss_r) ==
    IF avg_loss_r > 0 THEN (avg_win_r * One) \div avg_loss_r ELSE 0
payoff(avg_win_r, avg_loss_r) ==
    IF avg_loss_r > 0 THEN (avg_win_r * One) \div avg_loss_r
    ELSE IF avg_win_r = 0 THEN 0 ELSE 10 * One

metrics_profile(trades) ==
    IF trades = <<>> THEN ZeroProfile
    ELSE
    LET rs == RsOf(trades)
        num_trades == Len(rs)
        active_days == Cardinality(active_dates(trades))
    IN
    IF num_trades = 0 THEN [ ZeroProfile EXCEPT !.active_days = active_days ]
    ELSE
    LET win_rs == SelectSeq(rs, LAMBDA r : r > 0)
        loss_rs == SelectSeq(rs, LAMBDA r : r < 0)
        win_rate == directional_win_rate(rs)
        avg_win_r == IF win_rs # <<>> THEN SumSeq(win_rs) \div Len(win_rs) ELSE 0
        avg_loss_r == IF loss_rs # <<>> THEN (-SumSeq(loss_rs)) \div Len(loss_rs) ELSE 0
        payoff_ratio == payoff(avg_win_r, avg_loss_r)
        mean_r == SumSeq(rs) \div num_trades
        volatility == IF num_trades > 1
                        THEN ISqrt(SumSquares(rs, mean_r) \div num_trades,
                                   MaxOfSeq(rs) - MinOfSeq(rs))
                      ELSE 0
        scan == RDrawdownScan(rs, One, One, 0, 0)
        trades_per_day == IF active_days > 0
                            THEN (num_trades * One) \div active_days ELSE 0
    IN [ pnl |-> ValidPnl(trades), win_rate |-> win_rate,
         volatility |-> volatility, max_drawdown |-> scan.max_drawdown_abs,
         sharpe_window |-> None,
         num_trades |-> num_trades, active_days |-> active_days,
         trades_per_day |-> trades_per_day,
         avg_win_r |-> avg_win_r, avg_loss_r |-> avg_loss_r,
         payoff_ratio |-> payoff_ratio, expectancy |-> mean_r,
         min_trade_r |-> MinOfSeq(rs),
         max_drawdown_pct |-> scan.max_drawdown_pct ]

\* The trades table on day NowDay.  The rows of the refreshed trader inside
\* the 30-day window are open, closed the next day without a PnL, or closed
\* with -0.5 R, flat or +0.1 R, on a notional of 1000, or closed with a PnL
\* on a notional of 0; the table also holds a trade the trader closed before
\* the window and a trade of the other trader.
NowDay == 40
MetricsWindowDays == 30
MetricsExits ==
    { [ closed_at |-> None, realized_pnl |-> None ],
      [ closed_at |-> Some(36), realized_pnl |-> None ],
      [ closed_at |-> Some(36), realized_pnl |-> Some(-500) ],
      [ closed_at |-> Some(36), realized_pnl |-> Some(0) ],
      [ closed_at |-> Some(36), realized_pnl |-> Some(100) ] }

MetricsTradeRows(trader_id) ==
    { [ trader_id |-> trader_id, opened_at |-> 35, closed_at |-> x.closed_at,
        entry_price |-> 100, size |-> 10, realized_pnl |-> x.realized_pnl ] :
        x \in MetricsExits }
    \cup { [ trader_id |-> trader_id, opened_at |-> 35, closed_at |-> Some(36),
             entry_price |-> 0, size |-> 10, realized_pnl |-> Some(100) ] }

EarlierTrade(trader_id) ==
    [ trader_id |-> trader_id, opened_at |-> 5, closed_at |-> Some(6),
      entry_price |-> 100, size |-> 10, realized_pnl |-> Some(100) ]

OtherTraderTrade(trader_id) ==
    [ trader_id |-> 3 - trader_id, opened_at |-> 35, closed_at |-> Some(37),
      entry_price |-> 100, size |-> 10, realized_pnl |-> Some(100) ]

MetricsTradeTables(trader_id) ==
    UNION { { << EarlierTrade(trader_id) >> \o q \o << OtherTraderTrade(trader_id) >> :
                q \in [1..n -> MetricsTradeRows(trader_id)] } :
            n \in 0..MaxMetricsTrades }

InitMetrics ==
    /\ InitEngine
    /\ config = CHOOSE c \in StrategyConfigs : TRUE
    /\ sel = Idle
    /\ dd = Idle
    /\ bt = Idle
    /\ universe = {}

\* A refresh of one trader on one state of the trades table, outside a backtest.
ComputeMetrics ==
    /\ bt = Idle
    /\ \E trader_id \in TraderIds :
        \E table \in MetricsTradeTables(trader_id) :
            compute_metrics_for_trader(trader_id, MetricsWindowDays,
                metrics_profile(TradesInWindow(table, trader_id,
                                               NowDay - MetricsWindowDays)))

NextMetrics == ComputeMetrics

SpecMetrics == InitMetrics /\ [][NextMetrics]_vars

NoValidTrade(trades) ==
    \A i \in 1..Len(trades) :
        \/ IsNone(trades[i].realized_pnl)
        \/ trades[i].entry_price * trades[i].size = 0

RawTradeDays(trades) ==
    Cardinality({ d \in 0..NowDay :
                    \E i \in 1..Len(trades) :
                        trades[i].opened_at = d \/ trades[i].closed_at = Some(d) })

AllDerivedZero(m) ==
    /\ m.pnl = 0 /\ m.win_rate = 0 /\ m.volatility = 0
    /\ m.max_drawdown = 0 /\ m.max_drawdown_pct = 0
    /\ m.num_trades = 0 /\ m.trades_per_day = 0
    /\ m.payoff_ratio = 0 /\ m.expectancy = 0 /\ m.min_trade_r = 0

UpsertedAsIneligible(trader_id, window_days, m) ==
    LET rows == { r \in universe :
                    r.trader_id = trader_id /\ r.window_days = window_days }
    IN /\ Cardinality(rows) = 1
       /\ \A r \in rows :
            /\ ~r.eligible /\ r.score = 0
            /\ r.num_trades = 0 /\ r.active_days = m.active_days
            /\ r.pnl_window = 0 /\ r.win_rate_window = 0
            /\ r.volatility_window = 0 /\ r.max_drawdown_window = 0
            /\ r.max_drawdown_pct = 0 /\ r.trades_per_day = 0
            /\ r.payoff_ratio = 0 /\ r.expectancy = 0 /\ r.min_trade_r = 0

ZeroProfileWithoutValidTrade ==
    \A trader_id \in TraderIds : \A table \in MetricsTradeTables(trader_id) :
        LET trades == TradesInWindow(table, trader_id, NowDay - MetricsWindowDays)
            m == metrics_profile(trades)
            selection == evaluate_trader_profile(m, DEFAULT_CONFIG)
        IN NoValidTrade(trades) =>
              /\ AllDerivedZero(m)
              /\ m.active_days = RawTradeDays(trades)
              /\ ~selection.eligible /\ selection.score = 0

\* C18: compute_metrics_for_trader returns a profile for every trades table;
\* when the window holds no trade of the trader, or none with a known
\* realized PnL and a non-zero notional, every derived metric is zero,
\* active_days is the number of distinct days the window's trades touch, the
\* result is ineligible with score 0, and the call that returned such a
\* profile has upserted the trader's universe row with it.
C18_ZeroProfile ==
    /\ ZeroProfileWithoutValidTrade
    /\ last_call.op = "compute_metrics_for_trader" =>
          \A trader_id \in DOMAIN last_call.refreshed :
              LET r == last_call.refreshed[trader_id] IN
              r.metrics.num_trades = 0 =>
                 /\ AllDerivedZero(r.metrics)
                 /\ ~r.eligible /\ r.score = 0
                 /\ UpsertedAsIneligible(trader_id, last_call.window_days, r.metrics)

\* Trader 2 was refreshed from trades that carry no usable PnL but touch two
\* days, after the same trader had a row with valid trades.
C18_Witness ==
    /\ last_call.op = "compute_metrics_for_trader"
    /\ 2 \in DOMAIN last_call.refreshed
    /\ last_call.refreshed[2].metrics.num_trades = 0
    /\ last_call.refreshed[2].metrics.active_days = 2
    /\ \E r \in universe : r.trader_id = 2 /\ r.active_days = 2 /\ ~r.eligible
    /\ \E r \in universe : r.trader_id = 1 /\ r.num_trades = 2

NoTraderSelected ==
    ~ \E r \in universe :
        /\ r.window_days = bt.params.window_days
        /\ IsNone(bt.params.min_score) \/ r.score >= Val(bt.params.min_score)
        /\ IsNone(bt.params.min_trades_per_day)
              \/ r.trades_per_day >= Val(bt.params.min_trades_per_day)

IsZero(ratio) == ratio[1] = 0 /\ ratio[2] # 0

\* C19: a run_backtest call whose universe selection matches no trader ends
\* normally, and the BacktestRun it returns is the row it has just stored:
\* final_equity = initial_equity, total_pnl 0, zero drawdown, zero trades,
\* zero win rate and an empty equity curve.
C19_ZeroTraderRun ==
    (RunOver /\ NoTraderSelected) =>
        /\ RunStatus = "ok"
        /\ Len(backtest_runs) = bt.run
        /\ backtest_runs[bt.run] = Val(bt.outcome).run
        /\ LET run == Val(bt.outcome).run IN
             /\ run.summary.initial_equity = bt.params.initial_equity
             /\ run.summary.final_equity = bt.params.initial_equity
             /\ run.total_pnl = 0
             /\ run.max_drawdown = 0
             /\ run.summary.max_drawdown_abs = 0
             /\ IsZero(run.summary.max_drawdown_pct)
             /\ run.summary.total_trades = 0
             /\ IsZero(run.win_rate) /\ IsZero(run.summary.win_rate)
             /\ run.summary.equity_curve = <<>>

\* A run ended with no trader selected although the universe holds a row of
\* the window (its score is below min_score) and the trades table is not empty.
C19_Witness ==
    /\ RunOver
    /\ NoTraderSelected
    /\ universe # {}
    /\ bt.trades # <<>>
    /\ Len(backtest_runs) = 1

SevenHardFilters(m, c) ==
    << m.num_trades >= c.min_trades,
       m.active_days >= c.min_active_days,
       m.payoff_ratio >= c.min_payoff_ratio,
       m.expectancy > c.min_expectancy,
       m.max_drawdown_pct <= c.max_drawdown_pct,
       m.trades_per_day >= c.min_trades_per_day,
       m.min_trade_r >= -c.max_single_loss_r >>

\* C20: evaluate_trader_profile returns eligible = true exactly when the
\* profile meets all seven hard filters (expectancy strictly above
\* min_expectancy, the other six with equality allowed); when one of them
\* fails the result is eligible = false with score 0.
C20_SevenHardFilters ==
    sel.pc = "evaluated" =>
        LET filters == SevenHardFilters(sel.metrics, sel.config) IN
        /\ sel.result.eligible <=> \A i \in 1..7 : filters[i]
        /\ (\E i \in 1..7 : ~filters[i]) =>
              ~sel.result.eligible /\ sel.result.score = 0

\* A profile was evaluated that meets six filters, some of them with equality,
\* and fails the seventh only because its expectancy equals min_expectancy.
C20_Witness ==
    /\ sel.pc = "evaluated"
    /\ sel.metrics.expectancy = sel.config.min_expectancy
    /\ sel.metrics.num_trades = sel.config.min_trades
    /\ sel.metrics.max_drawdown_pct = sel.config.max_drawdown_pct
    /\ LET filters == SevenHardFilters(sel.metrics, sel.config) IN
         \A i \in 1..7 : filters[i] <=> i # 4
    /\ ~sel.result.eligible
    /\ sel.result.score = 0

(***************************************************************************)
(* The drawdown cutoff of the backtest replay (backtest_service.py:441-479) *)
(* and of the risk monitor (risk_engine.py:32-93) on the same legs, the    *)
(* same initial equity and the same threshold of 0.3.                      *)
(***************************************************************************)
MaxCutoffLegs == 3

\* Up to MaxCutoffLegs legs in close-time order: the i-th leg closes at
\* time i, with a PnL of -3500, -3000, -1000 or +3000.
InitCutoff ==
    /\ InitEngine
    /\ config = CHOOSE c \in StrategyConfigs : TRUE
    /\ universe = {}
    /\ sel = Idle
    /\ dd = Idle
    /\ \E n \in 0..MaxCutoffLegs :
          \E q \in [1..n -> {-3500, -3000, -1000, 3000}] :
             bt = [ pc |-> "legs",
                    legs |-> [ i \in 1..n |-> [ pnl |-> q[i], close_time |-> i ] ] ]

\* The replay loop over the legs; the legs it applied become the ledger the
\* risk monitor looks at, each as a closed position.
ReplayLegs ==
    /\ bt.pc = "legs"
    /\ LET replay == Replay(SortByCloseTime(bt.legs, <<>>),
                            RISK_DEFAULT_INITIAL_EQUITY, RISK_DEFAULT_INITIAL_EQUITY,
                            FALSE,
                            [ virtual_trades |-> <<>>, win_count |-> 0,
                              loss_count |-> 0 ])
           legs == replay.virtual_trades
       IN /\ bt' = [ pc |-> "replayed", legs |-> bt.legs,
                     applied |-> replay.virtual_trades,
                     halted |-> replay.active_drawdown_triggered ]
          /\ follower_trades' =
                [ i \in 1..Len(legs) |->
                    [ open_position("BTC", "long", 100, Some(100), None) EXCEPT
                        !.is_open = FALSE,
                        !.exit_price = Some(100),
                        !.closed_at = Some(legs[i].close_time),
                        !.realized_pnl = legs[i].pnl ] ]
    /\ UNCHANGED << universe, engineVars, signals, last_call, sel, dd, riskVars,
                    backtest_runs, requests >>

MonitorLegs ==
    /\ bt.pc = "replayed"
    /\ last_call.op # "check_and_enforce_risk_limits"
    /\ check_and_enforce_risk_limits

NextCutoff == ReplayLegs \/ MonitorLegs

SpecCutoff == InitCutoff /\ [][NextCutoff]_vars

\* C21: on the legs the replay applied, with the same initial equity and the
\* same threshold, the risk monitor reports risk_triggered = true exactly
\* when the replay halted on drawdown.
C21_SameCutoff ==
    (bt.pc = "replayed" /\ last_call.op = "check_and_enforce_risk_limits")
        => (last_call.risk_triggered <=> bt.halted)

\* A closed trade of the address, with the signal's symbol and side, opened
\* inside the signal's aggregation window.
HasClosedTradeInWindow(sig, addr) ==
    \E j \in 1..Len(bt.events) :
        /\ bt.events[j].trader_address = addr
        /\ bt.events[j].symbol = sig.symbol
        /\ bt.events[j].side = sig.side
        /\ bt.events[j].timestamp >= sig.timestamp - bt.params.strategy.time_window_seconds
        /\ bt.events[j].timestamp <= sig.timestamp
        /\ ~IsNone(bt.events[j].exit_price)

LegsOf(sig, addr) ==
    { i \in 1..Len(bt.all_legs) :
        /\ bt.all_legs[i].trader = addr
        /\ bt.all_legs[i].symbol = sig.symbol
        /\ bt.all_legs[i].side = sig.side
        /\ bt.all_legs[i].open_time = sig.timestamp }

\* C22: when a backtest run is over, every signal and every address of the
\* signal has exactly one leg if the address has a closed trade of the
\* signal's symbol and side opened inside the signal's aggregation window,
\* and no leg otherwise.
C22_LegPerClosedTrade ==
    RunOver =>
        \A k \in 1..Len(bt.sigs) :
            \A i \in 1..Len(bt.sigs[k].addresses) :
                LET sig == bt.sigs[k]
                    addr == sig.addresses[i]
                IN Cardinality(LegsOf(sig, addr)) =
                      IF HasClosedTradeInWindow(sig, addr) THEN 1 ELSE 0

Minimum(a, b) == IF a <= b THEN a ELSE b

EligibleEntries(window_days) ==
    { r \in universe : r.window_days = window_days /\ r.eligible }

\* C23: refresh_smart_universe recomputes the entry of every known trader
\* for the window and reports total_traders = the number of traders,
\* eligible_traders = the number of entries of the window with eligible =
\* true (at most total_traders), and top_traders = eligible entries only,
\* each once, in non-increasing score order, min(top_n, eligible_traders) of
\* them.
C23_RefreshSummary ==
    last_call.op = "refresh_smart_universe" =>
        LET w == last_call.window_days
            top == last_call.top_traders
            eligible == EligibleEntries(w)
        IN /\ DOMAIN last_call.refreshed = TraderIds
           /\ \A t \in TraderIds :
                \E r \in universe :
                    /\ r.trader_id = t /\ r.window_days = w
                    /\ r.eligible = last_call.refreshed[t].eligible
                    /\ r.score = last_call.refreshed[t].score
                    /\ r.num_trades = last_call.refreshed[t].metrics.num_trades
           /\ last_call.total_traders = Cardinality(TraderIds)
           /\ last_call.eligible_traders = Cardinality(eligible)
           /\ last_call.eligible_traders <= last_call.total_traders
           /\ Len(top) = Minimum(last_call.top_n, last_call.eligible_traders)
           /\ \A i \in 1..Len(top) :
                \E r \in eligible :
                    r.trader_id = top[i].trader_id /\ r.score = top[i].score
           /\ \A i, j \in 1..Len(top) :
                /\ i < j => top[i].score >= top[j].score
                /\ top[i].trader_id = top[j].trader_id => i = j

\* A refresh with top_n 1 found both traders eligible and reports one of
\* them, while the universe also holds the rows of the other window, one of
\* them not eligible.
C23_Witness ==
    /\ last_call.op = "refresh_smart_universe"
    /\ last_call.top_n = 1
    /\ last_call.eligible_traders = 2
    /\ Len(last_call.top_traders) = 1
    /\ Cardinality(universe) = 4
    /\ \E r \in universe : r.window_days # last_call.window_days /\ ~r.eligible

(***************************************************************************)
(* Force-liquidate (execution_service.py, close_all_positions).  Positions *)
(* are opened one after the other, so their table order is their opened_at *)
(* order.                                                                  *)
(***************************************************************************)
\* get_open_positions: the ids of the open rows, in table order.
RECURSIVE get_open_positions(_, _)
get_open_positions(trades, i) ==
    IF i > Len(trades) THEN <<>>
    ELSE (IF trades[i].is_open THEN << i >> ELSE <<>>)
            \o get_open_positions(trades, i + 1)

\* An exit price passed on as it is, positive or not.
LiquidationExitPriceUnchecked(trade, t_id, exit_price_map, winner_ids, loser_ids) ==
    IF DOMAIN exit_price_map # {}
      THEN IF trade.symbol \in DOMAIN exit_price_map
             THEN exit_price_map[trade.symbol] ELSE trade.entry_price
    ELSE IF t_id \in winner_ids THEN (trade.entry_price * 105) \div 100
    ELSE IF t_id \in loser_ids THEN (trade.entry_price * 70) \div 100
    ELSE trade.entry_price
LiquidationExitPrice(trade, t_id, exit_price_map, winner_ids, loser_ids) ==
    LET exit_price ==
            IF DOMAIN exit_price_map # {}
              THEN IF trade.symbol \in DOMAIN exit_price_map
                     THEN exit_price_map[trade.symbol] ELSE trade.entry_price
            ELSE IF t_id \in winner_ids THEN (trade.entry_price * 105) \div 100
            ELSE IF t_id \in loser_ids THEN (trade.entry_price * 70) \div 100
            ELSE trade.entry_price
    IN IF exit_price <= 0 THEN trade.entry_price ELSE exit_price

\* The loop of lines 132-154: close_position on each open id in turn.
RECURSIVE CloseEach(_, _, _, _, _, _)
CloseEach(trades, ids, exit_price_map, winner_ids, loser_ids, now) ==
    IF ids = <<>> THEN trades
    ELSE LET t_id == Head(ids)
             price == LiquidationExitPrice(trades[t_id], t_id, exit_price_map,
                                           winner_ids, loser_ids)
         IN CloseEach(IF trades[t_id].is_open
                        THEN [trades EXCEPT ![t_id] =
                                ClosedTrade(trades[t_id], Some(price), None, now)]
                      ELSE trades,
                      Tail(ids), exit_price_map, winner_ids, loser_ids, now)

close_all_positions(exit_price_map, now) ==
    LET open_trades_data == get_open_positions(follower_trades, 1)
        count == Len(open_trades_data)
        quarter == count \div 4
        n == IF count > 0 THEN (IF quarter > 1 THEN quarter ELSE 1) ELSE 0
        synthetic == DOMAIN exit_price_map = {}
        winner_ids == IF synthetic
                        THEN { open_trades_data[i] : i \in 1..n } ELSE {}
        loser_ids == IF synthetic
                       THEN { open_trades_data[i] : i \in (count - n + 1)..count }
                     ELSE {}
    IN /\ follower_trades' = CloseEach(follower_trades, open_trades_data,
                                       exit_price_map, winner_ids, loser_ids, now)
       /\ last_call' = [ op |-> "close_all_positions",
                         returned |-> open_trades_data ]
       /\ UNCHANGED << universe, engineVars, signals, sel, dd, bt, riskVars,
                       backtest_runs, requests >>

InitLiquidate ==
    /\ InitEngine
    /\ config = CHOOSE c \in StrategyConfigs : TRUE
    /\ universe = {}
    /\ sel = Idle
    /\ dd = Idle
    /\ bt = Idle

\* exit_price_map: none given, a price for BTC above the entry, a price for
\* BTC that is not positive, a price for another symbol only.
NextLiquidate ==
    \/ OpenPosition
    \/ ClosePosition
    \/ \E exit_price_map \in { [ sym \in {} |-> 0 ],
                                [ sym \in {"BTC"} |-> 130 ],
                                [ sym \in {"BTC"} |-> -5 ],
                                [ sym \in {"ETH"} |-> 130 ] } :
          close_all_positions(exit_price_map, ClockNow)

SpecLiquidate == InitLiquidate /\ [][NextLiquidate]_vars

SignedPnl(trade, exit_price) ==
    IF trade.side = "long" THEN (exit_price - trade.entry_price) * trade.size
    ELSE (trade.entry_price - exit_price) * trade.size

LiquidatedAll ==
    last_call'.op = "close_all_positions" =>
        /\ Len(follower_trades') = Len(follower_trades)
        /\ \A i \in 1..Len(follower_trades) :
              LET old == follower_trades[i]
                  new == follower_trades'[i]
              IN IF old.is_open
                   THEN /\ ~new.is_open
                        /\ ~IsNone(new.closed_at)
                        /\ ~IsNone(new.exit_price)
                        /\ Val(new.exit_price) > 0
                        /\ new.realized_pnl = SignedPnl(old, Val(new.exit_price))
                        /\ new.entry_price = old.entry_price
                        /\ new.size = old.size /\ new.side = old.side
                   ELSE new = old
        /\ last_call'.returned =
              get_open_positions(follower_trades, 1)

\* C24: when close_all_positions returns, no follower position is open:
\* every position that was open is closed with a close time, a positive
\* exit price and the realized PnL of that exit, and the positions that were
\* closed before are unchanged.
C24_NoneLeftOpen == [][LiquidatedAll]_vars

\* A liquidation found one position already closed and one open, and closed
\* the open one, a short, at the entry price because the price given for its
\* symbol was not positive.
C24_Witness ==
    /\ last_call.op = "close_all_positions"
    /\ last_call.returned = << 2 >>
    /\ Len(follower_trades) = 2
    /\ follower_trades[1].exit_price = Some(70)
    /\ follower_trades[1].closed_at = Some(1)
    /\ follower_trades[2].side = "short"
    /\ follower_trades[2].exit_price = Some(100)
    /\ \A i \in 1..2 : ~follower_trades[i].is_open

(***************************************************************************)
(* Claims on the R-multiples of compute_metrics_for_trader.                *)
(***************************************************************************)
UsableTrades(trades) ==
    { i \in 1..Len(trades) :
        /\ trades[i].realized_pnl # None
        /\ trades[i].entry_price * trades[i].size # 0 }

UsableOnly(trades) ==
    SelectSeq(trades, LAMBDA t : t.realized_pnl # None /\ t.entry_price * t.size # 0)

WinningTrades(trades) ==
    { i \in UsableTrades(trades) :
        Val(trades[i].realized_pnl) * trades[i].entry_price * trades[i].size > 0 }

LosingTrades(trades) ==
    { i \in UsableTrades(trades) :
        Val(trades[i].realized_pnl) * trades[i].entry_price * trades[i].size < 0 }

RDerived(m) ==
    << m.pnl, m.win_rate, m.volatility, m.max_drawdown, m.max_drawdown_pct,
       m.num_trades, m.avg_win_r, m.avg_loss_r, m.payoff_ratio, m.expectancy,
       m.min_trade_r >>

UsableTradesOnly ==
    \A trader_id \in TraderIds : \A table \in MetricsTradeTables(trader_id) :
        LET trades == TradesInWindow(table, trader_id, NowDay - MetricsWindowDays)
            m == metrics_profile(trades)
            wins == Cardinality(WinningTrades(trades))
            losses == Cardinality(LosingTrades(trades))
        IN /\ m.num_trades = Cardinality(UsableTrades(trades))
           /\ RDerived(m) = RDerived(metrics_profile(UsableOnly(trades)))
           /\ m.win_rate = IF wins + losses > 0
                             THEN (wins * One) \div (wins + losses) ELSE 0

\* C25: a trade whose realized PnL is unknown or whose notional is zero is
\* not counted in num_trades and changes no metric derived from the
\* R-multiples; win_rate is the number of trades with R > 0 over the number
\* with R > 0 or R < 0, flat trades in neither, and 0 when no trade is
\* directional; the row written for the trader carries those values.
C25_UsableTradesOnly ==
    /\ UsableTradesOnly
    /\ last_call.op = "compute_metrics_for_trader" =>
          \A trader_id \in DOMAIN last_call.refreshed :
              LET m == last_call.refreshed[trader_id].metrics IN
              /\ m.win_rate \in 0..One
              /\ (m.avg_win_r = 0 => m.win_rate = 0)
              /\ (m.avg_win_r > 0 /\ m.avg_loss_r = 0 => m.win_rate = One)
              /\ \E r \in universe :
                    /\ r.trader_id = trader_id
                    /\ r.window_days = last_call.window_days
                    /\ r.num_trades = m.num_trades
                    /\ r.win_rate_window = m.win_rate

\* Trader 1 was refreshed from a winning trade and a flat trade: both are
\* counted, and the win rate is 1.
C25_Witness ==
    /\ last_call.op = "compute_metrics_for_trader"
    /\ 1 \in DOMAIN last_call.refreshed
    /\ last_call.refreshed[1].metrics.num_trades = 2
    /\ last_call.refreshed[1].metrics.win_rate = One
    /\ last_call.refreshed[1].metrics.expectancy = 50
    /\ last_call.refreshed[1].metrics.avg_loss_r = 0

GuardedRatios ==
    \A trader_id \in TraderIds : \A table \in MetricsTradeTables(trader_id) :
        LET trades == TradesInWindow(table, trader_id, NowDay - MetricsWindowDays)
            m == metrics_profile(trades)
            wins == Cardinality(WinningTrades(trades))
            losses == Cardinality(LosingTrades(trades))
        IN /\ (wins = 0) = (m.avg_win_r = 0)
           /\ (losses = 0) = (m.avg_loss_r = 0)
           /\ m.payoff_ratio =
                 IF wins = 0 THEN 0
                 ELSE IF losses = 0 THEN 10 * One
                 ELSE (m.avg_win_r * One) \div m.avg_loss_r
           /\ m.trades_per_day =
                 IF m.active_days = 0 THEN 0
                 ELSE (m.num_trades * One) \div m.active_days
           /\ m.max_drawdown >= 0 /\ m.max_drawdown_pct >= 0
           /\ (m.max_drawdown = 0) = (m.max_drawdown_pct = 0)

\* C26: the metrics are computed without dividing by zero: payoff_ratio is
\* the 10.0 sentinel when there are winning trades and no losing trade, 0
\* when there is no winning trade and avg_win_r / avg_loss_r otherwise;
\* trades_per_day is num_trades / active_days and 0 when active_days is 0;
\* the drawdown percentage is never negative and is 0 when there is no
\* drawdown; the row written for the trader carries those values.
C26_GuardedRatios ==
    /\ GuardedRatios
    /\ last_call.op = "compute_metrics_for_trader" =>
          \A trader_id \in DOMAIN last_call.refreshed :
              LET m == last_call.refreshed[trader_id].metrics IN
              /\ (m.avg_loss_r = 0 => m.payoff_ratio \in {0, 10 * One})
              /\ (m.avg_win_r = 0 => m.payoff_ratio = 0)
              /\ (m.active_days = 0 => m.trades_per_day = 0)
              /\ \E r \in universe :
                    /\ r.trader_id = trader_id
                    /\ r.window_days = last_call.window_days
                    /\ r.payoff_ratio = m.payoff_ratio
                    /\ r.trades_per_day = m.trades_per_day
                    /\ r.max_drawdown_pct = m.max_drawdown_pct

\* Trader 1 was refreshed from two winning trades and got the sentinel,
\* while trader 2's row holds the ratio of a win of 0.1 R to a loss of 0.5 R
\* and the drawdown of that loss.
C26_Witness ==
    /\ last_call.op = "compute_metrics_for_trader"
    /\ 1 \in DOMAIN last_call.refreshed
    /\ last_call.refreshed[1].metrics.payoff_ratio = 10 * One
    /\ last_call.refreshed[1].metrics.avg_win_r = 100
    /\ last_call.refreshed[1].metrics.win_rate = One
    /\ last_call.refreshed[1].metrics.expectancy = 100
    /\ \E r \in universe :
          /\ r.trader_id = 2 /\ r.payoff_ratio = 200 /\ r.max_drawdown_pct = 500

(***************************************************************************)
(* The live engine and the backtest engine fed the same events: the        *)
(* backtest engine, on its own context, takes each event first and the     *)
(* live engine takes it next.  Both traders are eligible and both engines  *)
(* run the same configuration.                                             *)
(***************************************************************************)
InitLockstep ==
    /\ InitEngine
    /\ config \in StrategyConfigs
    /\ sel = Idle
    /\ dd = Idle
    /\ universe = RefreshedUniverse(RefreshedUniverse({}, 1, 30, GoodProfile),
                                    2, 30, GoodProfile)
    /\ bt = [ pc |-> "lockstep", n |-> 0, event |-> None, returned |-> None,
              ctx |-> [ event_buffers |-> [k \in Keys |-> <<>>],
                        last_signal_ts |-> [k \in {} |-> 0] ],
              sigs |-> <<>> ]

BacktestEngineStep ==
    /\ bt.pc = "lockstep"
    /\ bt.n = num_events
    /\ num_events < MaxEvents
    /\ \E event \in FeedEvents :
         \E addresses \in ListsOf(BtSmartAddresses(bt.ctx, event, config)) :
            LET res == _bt_process_trade_event(bt.ctx, event, config, addresses) IN
            bt' = [bt EXCEPT !.n = bt.n + 1, !.event = Some(event),
                             !.returned = res.sig, !.ctx = res.ctx,
                             !.sigs = IF IsNone(res.sig) THEN bt.sigs
                                      ELSE Append(bt.sigs, Val(res.sig))]
    /\ UNCHANGED << liveVars, sel, dd, backtest_runs, requests >>

LiveEngineStep ==
    /\ bt.pc = "lockstep"
    /\ bt.n = num_events + 1
    /\ process_trade_event(Val(bt.event))

NextLockstep == BacktestEngineStep \/ LiveEngineStep

SpecLockstep == InitLockstep /\ [][NextLockstep]_vars

SameSignal(live, back) ==
    /\ live.symbol = back.symbol
    /\ live.side = back.side
    /\ live.price_range_min = back.price_min
    /\ live.price_range_max = back.price_max
    /\ live.smart_trader_count = back.smart_trader_count
    /\ live.trader_addresses = { back.addresses[i] : i \in DOMAIN back.addresses }
    /\ Len(back.addresses) = Cardinality(live.trader_addresses)
    /\ live.created_at = back.timestamp

InBand(e, price_min, price_max) ==
    price_min <= e.price * BandScale /\ e.price * BandScale <= price_max

\* What a signal emitted for event says, given the buffers after the call.
WellFormedSignal(event, count, addresses, price_min, price_max, buffers) ==
    /\ addresses \subseteq FeedAddresses
    /\ count = Cardinality(addresses)
    /\ count >= config.min_smart_traders
    /\ event.trader_address \in addresses
    /\ \A a \in addresses :
          \E i \in 1..Len(buffers[EventKey(event)]) :
              LET e == buffers[EventKey(event)][i] IN
              /\ e.trader_address = a
              /\ e.symbol = event.symbol /\ e.side = event.side
              /\ InBand(e, price_min, price_max)

LiveSignalWellFormed ==
    (bt.pc = "lockstep" /\ num_events' = num_events + 1) =>
        LET event == Val(bt.event) IN
        IF IsNone(last_call'.returned)
          THEN /\ LAST_SIGNAL_TS' = LAST_SIGNAL_TS
               /\ signals' = signals
          ELSE LET sig == signals'[Val(last_call'.returned)] IN
               /\ Len(signals') = Len(signals) + 1
               /\ sig.symbol = event.symbol /\ sig.side = event.side
               /\ WellFormedSignal(event, sig.smart_trader_count,
                                   sig.trader_addresses, sig.price_range_min,
                                   sig.price_range_max, EVENT_BUFFERS')

BacktestSignalWellFormed ==
    (bt.pc = "lockstep" /\ bt'.n = bt.n + 1) =>
        LET event == Val(bt'.event) IN
        IF IsNone(bt'.returned)
          THEN /\ bt'.ctx.last_signal_ts = bt.ctx.last_signal_ts
               /\ bt'.sigs = bt.sigs
          ELSE LET sig == Val(bt'.returned) IN
               /\ bt'.sigs = Append(bt.sigs, sig)
               /\ sig.symbol = event.symbol /\ sig.side = event.side
               /\ Len(sig.addresses) = sig.smart_trader_count
               /\ WellFormedSignal(event, sig.smart_trader_count,
                                   { sig.addresses[i] : i \in DOMAIN sig.addresses },
                                   sig.price_min, sig.price_max,
                                   bt'.ctx.event_buffers)

\* C29: a signal emitted by the live engine or by the backtest engine has
\* smart_trader_count equal to the number of its distinct addresses, which
\* is at least min_smart_traders; its addresses include the address of the
\* event that triggered it, and each of them has, in the buffer of the
\* signal's symbol and side, an event priced inside the signal's band; an
\* event that emits no signal leaves the debounce timestamps unchanged.
C29_WellFormedSignals == [][LiveSignalWellFormed /\ BacktestSignalWellFormed]_vars

\* With min_smart_traders = 2, the second signal was emitted by the third
\* event for two addresses, after an event of the other side emitted none.
C29_Witness ==
    /\ bt.pc = "lockstep" /\ bt.n = 3 /\ num_events = 3
    /\ config.min_smart_traders = 2
    /\ last_call.returned = Some(1)
    /\ bt.returned # None
    /\ signals[1].trader_addresses = FeedAddresses
    /\ EVENT_BUFFERS[<<"BTC", "short">>] # <<>>
    /\ EVENT_BUFFERS[<<"BTC", "long">>] # <<>>

\* C27: fed the same events in non-decreasing time order, with every address
\* eligible, the same configuration and both starting empty, the backtest
\* engine and the live engine have, after every event, emitted the same
\* signals (band, count, address set) and hold the same buffers and the
\* same debounce timestamps.
C27_SameEngine ==
    (bt.pc = "lockstep" /\ bt.n = num_events) =>
        /\ EVENT_BUFFERS = bt.ctx.event_buffers
        /\ LAST_SIGNAL_TS = bt.ctx.last_signal_ts
        /\ Len(signals) = Len(bt.sigs)
        /\ \A i \in 1..Len(signals) : SameSignal(signals[i], bt.sigs[i])

\* Both engines have taken three events, evicted one from a buffer, let a
\* signal of two addresses through and debounced or refused another event.
C27_Witness ==
    /\ bt.pc = "lockstep" /\ bt.n = 3 /\ num_events = 3
    /\ Len(signals) = 1 /\ Len(bt.sigs) = 1
    /\ signals[1].smart_trader_count = 2
    /\ Len(bt.ctx.event_buffers[<<"BTC", "long">>]) = 2
    /\ Len(EVENT_BUFFERS[<<"BTC", "long">>]) = 2
    /\ <<"BTC", "long">> \in DOMAIN LAST_SIGNAL_TS

(***************************************************************************)
(* The equity curve of a backtest summary (backtest_service.py, lines      *)
(* 506-546), one point per applied leg, with the step numbers the code     *)
(* stores.  Every leg of a run has the same PnL.                           *)
(***************************************************************************)
MaxCurvePoints == 501

InitCurve ==
    /\ InitEngine
    /\ config = CHOOSE c \in StrategyConfigs : TRUE
    /\ universe = {}
    /\ sel = Idle
    /\ dd = Idle
    /\ \E pnl_bt \in {-1, 1} :
          bt = [ pc |-> "curve", pnl_bt |-> pnl_bt,
                 equity_curve |-> << [ step |-> 0,
                                       equity |-> DEFAULT_INITIAL_EQUITY ] >>,
                 eq_samples |-> <<>> ]

\* One iteration of the loop of lines 510-513.
AppendPoint ==
    /\ bt.pc = "curve"
    /\ Len(bt.equity_curve) < MaxCurvePoints
    /\ LET step_counter == bt.equity_curve[Len(bt.equity_curve)].step + 1
           equity == bt.equity_curve[Len(bt.equity_curve)].equity + bt.pnl_bt
       IN bt' = [bt EXCEPT !.equity_curve =
                    Append(@, [ step |-> step_counter, equity |-> equity ])]
    /\ UNCHANGED << liveVars, sel, dd, backtest_runs, requests >>

\* Lines 541-546.
TruncateCurve ==
    /\ bt.pc = "curve"
    /\ bt' = [bt EXCEPT !.pc = "sampled",
                        !.eq_samples = EqSamples(bt.equity_curve)]
    /\ UNCHANGED << liveVars, sel, dd, backtest_runs, requests >>

NextCurve == AppendPoint \/ TruncateCurve

SpecCurve == InitCurve /\ [][NextCurve]_vars

\* C28: the equity curve of the summary holds at most max_points points
\* whatever the number of applied legs, starts with step 0 at the initial
\* equity, and its steps are strictly increasing.
C28_AtMostMaxPoints ==
    bt.pc = "sampled" =>
        /\ Len(bt.eq_samples) <= max_points
        /\ bt.eq_samples[1] = [ step |-> 0, equity |-> DEFAULT_INITIAL_EQUITY ]
        /\ \A i \in 1..(Len(bt.eq_samples) - 1) :
              bt.eq_samples[i].step < bt.eq_samples[i + 1].step

(***************************************************************************)
(* Concurrent execute_signal calls (routers/signals.py, lines 47-59): the  *)
(* endpoint is a plain def, so two requests run in two threads, each with  *)
(* its own session.  A call reads the signal and checks it, then           *)
(* open_position inserts the trade and commits, then the call marks the    *)
(* signal executed and commits; each of the three is one step.             *)
(***************************************************************************)
MaxRaceEvents == 1

InitRace ==
    /\ InitEngine
    /\ config = FirstInstanceConfig
    /\ sel = Idle
    /\ dd = Idle
    /\ bt = Idle
    /\ universe = RefreshedUniverse(RefreshedUniverse({}, 1, 30, GoodProfile),
                                    2, 30, GoodProfile)

FeedTradeEventRace ==
    /\ num_events < MaxRaceEvents
    /\ \E event \in FeedEvents : process_trade_event(event)

\* Lines 35-52: db.get, the executed check, the entry price and the notional.
execute_signal_read(request, signal_id) ==
    LET Raised(outcome) ==
            /\ requests' = [ r \in DOMAIN requests \cup {request} |->
                                IF r = request
                                  THEN [ pc |-> "failed", signal_id |-> signal_id ]
                                ELSE requests[r] ]
            /\ last_call' = ExecOutcome(signal_id, outcome)
            /\ UNCHANGED << signals, follower_trades >>
    IN
    /\ request \notin DOMAIN requests
    /\ IF signal_id \notin 1..Len(signals)
         THEN Raised("ValueError: not found")
       ELSE IF AlreadyExecuted(signals[signal_id])
         THEN Raised("ValueError: already executed")
       ELSE LET signal == signals[signal_id]
                entry_price == (signal.price_range_min + signal.price_range_max) \div 2
            IN IF entry_price <= 0
                 THEN Raised("ValueError: invalid entry price")
               ELSE /\ requests' = [ r \in DOMAIN requests \cup {request} |->
                                       IF r = request
                                         THEN [ pc |-> "read",
                                                signal_id |-> signal_id,
                                                symbol |-> signal.symbol,
                                                side |-> signal.side,
                                                entry_price |-> entry_price ]
                                       ELSE requests[r] ]
                    /\ UNCHANGED << signals, follower_trades, last_call >>
    /\ UNCHANGED << universe, engineVars, sel, dd, bt, riskVars, backtest_runs >>

\* Lines 54-60: open_position adds the trade and commits.
execute_signal_open(request) ==
    /\ request \in DOMAIN requests
    /\ requests[request].pc = "read"
    /\ follower_trades' =
          Append(follower_trades,
                 open_position(requests[request].symbol, requests[request].side,
                               DEFAULT_NOTIONAL_PER_SIGNAL,
                               Some(requests[request].entry_price),
                               requests[request].signal_id))
    /\ requests' = [requests EXCEPT ![request].pc = "opened"]
    /\ UNCHANGED << signals, last_call >>
    /\ UNCHANGED << universe, engineVars, sel, dd, bt, riskVars, backtest_runs >>

\* Lines 63-68: signal.executed = True, executed_at, commit.
execute_signal_mark(request) ==
    /\ request \in DOMAIN requests
    /\ requests[request].pc = "opened"
    /\ signals' = [signals EXCEPT ![requests[request].signal_id].executed = TRUE,
                                  ![requests[request].signal_id].executed_at =
                                        Some("utcnow")]
    /\ requests' = [requests EXCEPT ![request].pc = "done"]
    /\ last_call' = ExecOutcome(requests[request].signal_id, "ok")
    /\ UNCHANGED follower_trades
    /\ UNCHANGED << universe, engineVars, sel, dd, bt, riskVars, backtest_runs >>

\* Two requests, each for one of the signals or for an id that does not exist.
NextRace ==
    \/ FeedTradeEventRace
    \/ \E request \in {1, 2}, signal_id \in 1..(Len(signals) + 1) :
          execute_signal_read(request, signal_id)
    \/ \E request \in {1, 2} : execute_signal_open(request)
    \/ \E request \in {1, 2} : execute_signal_mark(request)

SpecRace == InitRace /\ [][NextRace]_vars

Succeeded(signal_id) ==
    { r \in DOMAIN requests :
        requests[r].pc = "done" /\ requests[r].signal_id = signal_id }

TradesOf(signal_id) ==
    { i \in 1..Len(follower_trades) : follower_trades[i].signal_id = signal_id }

\* C30: whatever the interleaving of two execute_signal calls on one signal,
\* at most one of them succeeds and at most one follower trade with that
\* signal_id exists.
C30_AtMostOneExecution ==
    \A signal_id \in 1..Len(signals) :
        /\ Cardinality(Succeeded(signal_id)) <= 1
        /\ Cardinality(TradesOf(signal_id)) <= 1

====
